---- MODULE Spec2Model ----
(***************************************************************************)
(* Verification model of the AI provider core of farm-framework:           *)
(*   - RateLimiter and OpenAIProvider._make_request_with_retry             *)
(*     (apps/api/src/ai/providers/openai.py)                               *)
(*   - AIWebSocketManager and websocket_ai_endpoint                        *)
(*     (apps/api/src/websocket/ai_handlers.py)                             *)
(*   - AIRouter (apps/api/src/ai/router.py)                                *)
(*   - StreamingChatSession (packages/core/src/ai/ollama/streaming.py)     *)
(*   - websocket_health_monitor (apps/api/src/routes/websocket.py)         *)
(* Time is a discrete clock in seconds that advances TimeStep at a time.   *)
(* Coroutines are interleaved at their suspension points only (asyncio's   *)
(* single-threaded event loop): each action is the code between two        *)
(* suspension points.                                                      *)
(***************************************************************************)
EXTENDS Integers, Sequences, FiniteSets, TLC

----------------------------------------------------------------------------
(* Bounds of the model *)

NumCallers == 2
MaxCalls == 3
MaxTime == 120
TimeStep == 30
MaxRPM == 2
MaxTPM == 4
MaxAttempts == 4
MaxFails == 4
MaxPromptLen == 8
MaxCancelCalls == 2
MaxWaiters == 3

(* Program constants *)

WindowSeconds == 60
DefaultResponseTokens == 150
RetryDelay == 1
CharsPerToken == 4

Callers == 1..NumCallers
None == "None"

----------------------------------------------------------------------------
(* Pure helpers *)

Max(a, b) == IF a >= b THEN a ELSE b

RECURSIVE Pow2(_)
Pow2(n) == IF n = 0 THEN 1 ELSE 2 * Pow2(n - 1)

RECURSIVE SumTokens(_)
SumTokens(bucket) ==
    IF bucket = << >> THEN 0 ELSE Head(bucket)[2] + SumTokens(Tail(bucket))

\* now - t > 60: the entry recorded at time t has left the window
Aged_Mut(t, now) == t - now > WindowSeconds
Aged(t, now) == now - t > WindowSeconds

\* while self.request_bucket and now - self.request_bucket[0] > 60: popleft()
RECURSIVE PurgeRequests(_, _)
PurgeRequests(bucket, now) ==
    IF bucket # << >> /\ Aged(Head(bucket), now)
    THEN PurgeRequests(Tail(bucket), now)
    ELSE bucket

\* while self.token_bucket and now - self.token_bucket[0][0] > 60: popleft()
RECURSIVE PurgeTokens(_, _)
PurgeTokens(bucket, now) ==
    IF bucket # << >> /\ Aged(Head(bucket)[1], now)
    THEN PurgeTokens(Tail(bucket), now)
    ELSE bucket

\* return max(1, len(text) // 4)
estimate_tokens(len) == Max(1, len \div CharsPerToken)

\* estimated_tokens += kwargs.get("max_tokens", 150)
EstimatedTokens(len, max_tokens) ==
    estimate_tokens(len)
      + (IF max_tokens = << >> THEN DefaultResponseTokens ELSE max_tokens[1])

----------------------------------------------------------------------------
(* State of one OpenAIProvider: its RateLimiter, its retry configuration   *)
(* and the coroutines that are inside _make_request_with_retry.            *)

VARIABLES
    clock,                \* time.time(), in seconds
    cur,                  \* the caller that holds the event loop, 0 if none
    requests_per_minute,  \* RateLimiter.requests_per_minute
    tokens_per_minute,    \* RateLimiter.tokens_per_minute
    max_retries,          \* OpenAIProvider.max_retries
    request_bucket,       \* RateLimiter.request_bucket: deque of timestamps
    token_bucket,         \* RateLimiter.token_bucket: deque of (timestamp, tokens)
    call,                 \* per caller: the frame of _make_request_with_retry
    admitted,             \* history: admission time of every admitted request
    tokenAdmitted,        \* history: (time, tokens) of every admitted estimate
    callsMade             \* number of calls started so far

pvars == <<clock, cur, requests_per_minute, tokens_per_minute, max_retries,
           request_bucket, token_bucket, call, admitted, tokenAdmitted,
           callsMade>>

VARIABLES
    active_connections,   \* connection id -> websocket (0: no entry)
    connection_metadata,  \* connection id -> metadata (present = FALSE: no entry)
    active_streams,       \* connection id -> task (0: no entry)
    task,                 \* the asyncio.Task objects created by _start_chat_stream
    nextTask,             \* next task to be created
    ep,                   \* per websocket: the frame of websocket_ai_endpoint
    wsOpen,               \* per websocket: the client has not closed it
    inbox,                \* per websocket: messages sent by the client, unread
    msgsSent,             \* messages sent by the clients so far
    msgBudget,            \* messages the clients send in this run
    delivered,            \* per connection id: messages written to its websocket, in order
    models,               \* provider -> provider.models keys (catalog)
    reqLog                \* history of the chat requests naming an absent model

wvars == <<active_connections, connection_metadata, active_streams, task,
           nextTask, ep, wsOpen, inbox, msgsSent, msgBudget, delivered, models,
           reqLog>>

VARIABLES
    cfg,                  \* settings.ai and settings.environment, and the adapter
                          \* whose constructor raises (None: none does)
    providers,            \* AIRouter.providers: names in insertion order
    router_default,       \* AIRouter.default_provider
    router_pc,            \* "new" before AIRouter.__init__, then "ready"
    health,               \* per adapter: how its health_check behaves
    hc,                   \* the frame of AIRouter.health_check_all
    resolved              \* the last call of AIRouter.get_provider and what
                          \* became of the call made on the adapter it returned

rvars == <<cfg, providers, router_default, router_pc, health, hc, resolved>>

VARIABLES
    conversation_history, \* StreamingChatSession.conversation_history
    session               \* the frame of StreamingChatSession.send_message

svars == <<conversation_history, session>>

VARIABLES
    status_connections,   \* StatusWebSocketManager.active_connections: client
                          \* ids in insertion order
    monitor,              \* the frame of websocket_health_monitor
    published             \* history: the health updates written to listeners,
                          \* as (iteration, listener, snapshot)

mvars == <<status_connections, monitor, published>>

VARIABLES
    manager_streams,      \* OllamaStreamingManager.active_streams: stream id ->
                          \* entry (present = FALSE: no entry)
    gen                   \* the async generators made by stream_chat_response

ovars == <<manager_streams, gen>>

xvars == <<svars, mvars, ovars>>

vars == <<pvars, wvars, rvars, xvars>>

ErrKinds == {"RateLimitError", "APIError", "Exception"}
\* getattr(e, "status", None): << >> when the error carries no status
ErrStatuses == {<< >>, <<404>>, <<500>>}

IdleCall ==
    [pc |-> "idle", wakeAt |-> 0, est |-> 0, kind |-> None, status |-> << >>,
     fails |-> 0, attempt |-> 0, invocations |-> 0, lastErrorAt |-> 0,
     result |-> None, raisedAt |-> 0, reqAdmits |-> 0, tokAdmits |-> 0,
     slept |-> << >>, len |-> 0, max_tokens |-> << >>, waits |-> 0,
     tokWaits |-> 0, op |-> None]

\* RateLimiter.__init__ and OpenAIProvider.__init__
InitProvider ==
    /\ clock = 0
    /\ cur = 0
    /\ requests_per_minute \in 1..MaxRPM
    /\ tokens_per_minute = MaxTPM
    /\ max_retries \in 0..MaxAttempts
    /\ request_bucket = << >>
    /\ token_bucket = << >>
    /\ call = [p \in Callers |-> IdleCall]
    /\ admitted = << >>
    /\ tokenAdmitted = << >>
    /\ callsMade = 0

\* if len(self.request_bucket) >= self.requests_per_minute
RequestBucketFull_Mut(bucket) == Len(bucket) > requests_per_minute
RequestBucketFull(bucket) == Len(bucket) >= requests_per_minute

\* if current_tokens + estimated_tokens > self.tokens_per_minute
TokenBudgetExceeded_Mut(bucket, est) == est > tokens_per_minute
TokenBudgetExceeded(bucket, est) == SumTokens(bucket) + est > tokens_per_minute

\* A caller enters _make_request_with_retry(request_func, ...): the prompt
\* has len characters, kwargs carries max_tokens (or not), and request_func
\* fails on its first `fails` invocations with an error of the given kind.
StartCall(p, len, max_tokens, kind, status, fails) ==
    /\ cur = 0
    /\ call[p].pc = "idle"
    /\ callsMade < MaxCalls
    /\ callsMade' = callsMade + 1
    /\ call' = [call EXCEPT ![p] =
                  [IdleCall EXCEPT !.pc = "acquire_request",
                                   !.est = EstimatedTokens(len, max_tokens),
                                   !.kind = kind, !.status = status,
                                   !.fails = fails, !.len = len,
                                   !.max_tokens = max_tokens]]
    /\ cur' = p
    /\ UNCHANGED <<clock, requests_per_minute, tokens_per_minute, max_retries,
                   request_bucket, token_bucket, admitted, tokenAdmitted>>

\* The operations of OpenAIProvider that call
\* _make_request_with_retry(self.client.models.list): no messages, no
\* prompt argument and no max_tokens
Probes == {"health_check", "list_models"}

\* health_check or list_models enters _make_request_with_retry:
\* prompt_text = "" and kwargs is empty.
StartProbe_Mut(p, op, kind, status, fails) ==
    /\ cur = 0
    /\ call[p].pc = "idle"
    /\ callsMade < MaxCalls
    /\ callsMade' = callsMade + 1
    /\ call' = [call EXCEPT ![p] =
                  [IdleCall EXCEPT !.pc = "attempt",
                                   !.est = EstimatedTokens(0, << >>),
                                   !.kind = kind, !.status = status,
                                   !.fails = fails, !.op = op]]
    /\ cur' = p
    /\ UNCHANGED <<clock, requests_per_minute, tokens_per_minute, max_retries,
                   request_bucket, token_bucket, admitted, tokenAdmitted>>
StartProbe(p, op, kind, status, fails) ==
    /\ cur = 0
    /\ call[p].pc = "idle"
    /\ callsMade < MaxCalls
    /\ callsMade' = callsMade + 1
    /\ call' = [call EXCEPT ![p] =
                  [IdleCall EXCEPT !.pc = "acquire_request",
                                   !.est = EstimatedTokens(0, << >>),
                                   !.kind = kind, !.status = status,
                                   !.fails = fails, !.op = op]]
    /\ cur' = p
    /\ UNCHANGED <<clock, requests_per_minute, tokens_per_minute, max_retries,
                   request_bucket, token_bucket, admitted, tokenAdmitted>>

\* What the operation returns to its caller: health_check returns True, or
\* False from its except clause; list_models returns the model ids, or []
ProbeReturn(op, result) ==
    IF op = "health_check"
    THEN (IF result = "ok" THEN "True" ELSE "False")
    ELSE (IF result = "ok" THEN "models" ELSE "[]")

\* RateLimiter.acquire_request: one pass, up to the sleep or the append.
AcquireRequest(p) ==
    /\ \/ cur = p /\ call[p].pc = "acquire_request"
       \/ cur = 0 /\ call[p].pc = "sleep_request" /\ clock >= call[p].wakeAt
    /\ LET now == clock
           bucket == PurgeRequests(request_bucket, now)
       IN IF RequestBucketFull(bucket)
          THEN /\ request_bucket' = bucket
               /\ call' = [call EXCEPT
                    ![p].pc = "sleep_request",
                    ![p].wakeAt = now + (WindowSeconds - (now - Head(bucket))),
                    ![p].waits = IF WindowSeconds - (now - Head(bucket)) > 0
                                 THEN @ + 1 ELSE @]
               /\ cur' = 0
               /\ UNCHANGED admitted
          ELSE /\ request_bucket' = Append(bucket, now)
               /\ admitted' = Append(admitted, now)
               /\ call' = [call EXCEPT ![p].pc = "acquire_tokens",
                                       ![p].wakeAt = 0,
                                       ![p].reqAdmits = @ + 1]
               /\ cur' = p
    /\ UNCHANGED <<clock, requests_per_minute, tokens_per_minute, max_retries,
                   token_bucket, tokenAdmitted, callsMade>>

\* if current_tokens + estimated_tokens > self.tokens_per_minute:
\*     if self.token_bucket: ... sleep and try again
MustWait_Mut(bucket, est) ==
    TokenBudgetExceeded(bucket, est) /\ bucket # << >>
        /\ est <= tokens_per_minute
MustWait(bucket, est) == TokenBudgetExceeded(bucket, est) /\ bucket # << >>

\* RateLimiter.acquire_tokens: one pass, up to the sleep or the append.
AcquireTokens(p) ==
    /\ \/ cur = p /\ call[p].pc = "acquire_tokens"
       \/ cur = 0 /\ call[p].pc = "sleep_tokens" /\ clock >= call[p].wakeAt
    /\ LET now == clock
           bucket == PurgeTokens(token_bucket, now)
           est == call[p].est
       IN IF MustWait(bucket, est)
          THEN /\ token_bucket' = bucket
               /\ call' = [call EXCEPT
                    ![p].pc = "sleep_tokens",
                    ![p].wakeAt = now + (WindowSeconds - (now - Head(bucket)[1])),
                    ![p].tokWaits =
                        IF WindowSeconds - (now - Head(bucket)[1]) > 0
                        THEN @ + 1 ELSE @]
               /\ cur' = 0
               /\ UNCHANGED tokenAdmitted
          ELSE /\ token_bucket' = Append(bucket, <<now, est>>)
               /\ tokenAdmitted' = Append(tokenAdmitted, <<now, est>>)
               /\ call' = [call EXCEPT ![p].pc = "attempt",
                                       ![p].wakeAt = 0,
                                       ![p].tokAdmits = @ + 1]
               /\ cur' = p
    /\ UNCHANGED <<clock, requests_per_minute, tokens_per_minute, max_retries,
                   request_bucket, admitted, callsMade>>

\* for attempt in range(self.max_retries)
LoopExhausted_Mut(attempt) == attempt >= max_retries + 1
LoopExhausted(attempt) == attempt >= max_retries

\* Head of the retry loop: either the loop is exhausted and the last error
\* (or RuntimeError) is raised, or request_func is invoked and awaited.
Attempt(p) ==
    /\ cur = p
    /\ call[p].pc = "attempt"
    /\ IF LoopExhausted(call[p].attempt)
       THEN call' = [call EXCEPT
                ![p].pc = "done",
                ![p].result = IF call[p].lastErrorAt # 0
                              THEN "raised" ELSE "RuntimeError",
                ![p].raisedAt = call[p].lastErrorAt]
       ELSE call' = [call EXCEPT ![p].pc = "request",
                                 ![p].invocations = @ + 1]
    /\ cur' = 0
    /\ UNCHANGED <<clock, requests_per_minute, tokens_per_minute, max_retries,
                   request_bucket, token_bucket, admitted, tokenAdmitted,
                   callsMade>>

\* attempt < self.max_retries - 1 (RateLimitError branch)
RetryAfterRateLimit(attempt) == attempt < max_retries - 1

\* attempt < self.max_retries - 1 and status_code is not None and status_code >= 500
RetryAfterAPIError(attempt, status) ==
    attempt < max_retries - 1 /\ status # << >> /\ status[1] >= 500

\* wait_time = self.retry_delay * (2**attempt)
BackoffDelay_Mut(attempt) == RetryDelay * (2 * attempt)
BackoffDelay(attempt) == RetryDelay * Pow2(attempt)

\* the except clause that ends the loop: only `except Exception` has a break
BreaksLoop_Mut(kind, status) == FALSE
BreaksLoop(kind, status) == kind = "Exception"

\* request_func returns or raises; the except clauses of the retry loop.
Response(p) ==
    /\ cur = 0
    /\ call[p].pc = "request"
    /\ LET c == call[p]
           i == c.invocations
       IN IF i > c.fails
          THEN /\ call' = [call EXCEPT ![p].pc = "done", ![p].result = "ok"]
               /\ cur' = 0
          ELSE IF BreaksLoop(c.kind, c.status)
          THEN /\ call' = [call EXCEPT ![p].pc = "done",
                                       ![p].lastErrorAt = i,
                                       ![p].result = "raised",
                                       ![p].raisedAt = i]
               /\ cur' = 0
          ELSE IF \/ c.kind = "RateLimitError" /\ RetryAfterRateLimit(c.attempt)
                  \/ c.kind = "APIError" /\ RetryAfterAPIError(c.attempt, c.status)
          THEN /\ call' = [call EXCEPT
                    ![p].pc = "backoff",
                    ![p].wakeAt = clock + BackoffDelay(c.attempt),
                    ![p].slept = Append(@, BackoffDelay(c.attempt)),
                    ![p].lastErrorAt = i,
                    ![p].attempt = @ + 1]
               /\ cur' = 0
          ELSE /\ call' = [call EXCEPT ![p].pc = "attempt",
                                       ![p].lastErrorAt = i,
                                       ![p].attempt = @ + 1]
               /\ cur' = p
    /\ UNCHANGED <<clock, requests_per_minute, tokens_per_minute, max_retries,
                   request_bucket, token_bucket, admitted, tokenAdmitted,
                   callsMade>>

\* await asyncio.sleep(wait_time) of the retry loop returns
BackoffDone(p) ==
    /\ cur = 0
    /\ call[p].pc = "backoff"
    /\ clock >= call[p].wakeAt
    /\ call' = [call EXCEPT ![p].pc = "attempt", ![p].wakeAt = 0]
    /\ cur' = p
    /\ UNCHANGED <<clock, requests_per_minute, tokens_per_minute, max_retries,
                   request_bucket, token_bucket, admitted, tokenAdmitted,
                   callsMade>>

\* The caller takes the result (or the exception); its frame is gone.
Return(p) ==
    /\ cur = 0
    /\ call[p].pc = "done"
    /\ call' = [call EXCEPT ![p] = IdleCall]
    /\ UNCHANGED <<clock, cur, requests_per_minute, tokens_per_minute,
                   max_retries, request_bucket, token_bucket, admitted,
                   tokenAdmitted, callsMade>>

\* Time passes while every coroutine is suspended.
Tick ==
    /\ cur = 0
    /\ clock < MaxTime
    /\ clock' = clock + TimeStep
    /\ UNCHANGED <<cur, requests_per_minute, tokens_per_minute, max_retries,
                   request_bucket, token_bucket, call, admitted, tokenAdmitted,
                   callsMade>>

Scripts ==
    {<<None, << >>, 0>>}
      \cup {<<"RateLimitError", << >>, n>> : n \in 1..MaxFails}
      \cup {<<"APIError", st, n>> : st \in ErrStatuses, n \in 1..MaxFails}
      \cup {<<"Exception", << >>, n>> : n \in 1..MaxFails}

\* Steps of a caller between admission and the return of its request
CallSteps ==
    \/ \E p \in Callers : AcquireRequest(p)
    \/ \E p \in Callers : AcquireTokens(p)
    \/ \E p \in Callers : Attempt(p)
    \/ \E p \in Callers : Response(p)
    \/ \E p \in Callers : Return(p)
    \/ Tick

\* Concurrent callers of one provider whose requests succeed
NextLimiter ==
    \/ \E p \in Callers, len \in {0, MaxPromptLen}, mt \in {<< >>, <<1>>} :
          StartCall(p, len, mt, None, << >>, 0) /\ UNCHANGED <<wvars, rvars, xvars>>
    \/ CallSteps /\ UNCHANGED <<wvars, rvars, xvars>>

\* The awaits at which a call inside _make_request_with_retry is suspended:
\* the sleeps of the RateLimiter, the backoff sleep, and request_func (the
\* request itself or the next chunk of its response)
SuspensionPoints == {"sleep_request", "sleep_tokens", "backoff", "request"}

\* The stream task that runs caller p is cancelled: CancelledError is raised
\* at the await where the call is suspended.  It is not an Exception, so no
\* except clause of the retry loop catches it, and the RateLimiter has no
\* try block: the frame unwinds and the buckets stay as they are.
CancelCall_Mut(p) ==
    /\ cur = 0
    /\ call[p].pc \in SuspensionPoints
    /\ call' = [call EXCEPT ![p].pc = "done", ![p].result = "cancelled",
                            ![p].wakeAt = 0]
    /\ request_bucket' = IF request_bucket = << >> THEN request_bucket
                         ELSE SubSeq(request_bucket, 1, Len(request_bucket) - 1)
    /\ UNCHANGED <<clock, cur, requests_per_minute, tokens_per_minute,
                   max_retries, token_bucket, admitted, tokenAdmitted,
                   callsMade>>
CancelCall(p) ==
    /\ cur = 0
    /\ call[p].pc \in SuspensionPoints
    /\ call' = [call EXCEPT ![p].pc = "done", ![p].result = "cancelled",
                            ![p].wakeAt = 0]
    /\ UNCHANGED <<clock, cur, requests_per_minute, tokens_per_minute,
                   max_retries, request_bucket, token_bucket, admitted,
                   tokenAdmitted, callsMade>>

\* Time passes after MaxTime up to the moment the sleep of a coroutine is
\* over and the entry it waits for has left the window.
TickWhileWaiting ==
    /\ cur = 0
    /\ clock >= MaxTime
    /\ \E p \in Callers :
          /\ call[p].pc \in {"sleep_request", "sleep_tokens", "backoff"}
          /\ call[p].wakeAt >= clock
    /\ clock' = clock + TimeStep
    /\ UNCHANGED <<cur, requests_per_minute, tokens_per_minute, max_retries,
                   request_bucket, token_bucket, call, admitted, tokenAdmitted,
                   callsMade>>

\* Calls of a session's stream (caller 1, which may be cancelled) and of
\* other callers, succeeding or rate limited once; MaxCancelCalls in all
CancelScripts == {<<None, 0>>, <<"RateLimitError", 1>>}

NextCancel ==
    \/ \E p \in Callers, s \in CancelScripts :
          /\ callsMade < MaxCancelCalls
          /\ StartCall(p, MaxPromptLen, <<1>>, s[1], << >>, s[2])
          /\ UNCHANGED <<wvars, rvars, xvars>>
    \/ CallSteps /\ UNCHANGED <<wvars, rvars, xvars>>
    \/ \E p \in Callers : BackoffDone(p) /\ UNCHANGED <<wvars, rvars, xvars>>
    \/ CancelCall(1) /\ UNCHANGED <<wvars, rvars, xvars>>
    \/ TickWhileWaiting /\ UNCHANGED <<wvars, rvars, xvars>>

\* The event loop runs every coroutine that is ready, and time passes.
FairCancel ==
    /\ \A p \in Callers :
          /\ WF_vars(AcquireRequest(p) /\ UNCHANGED <<wvars, rvars, xvars>>)
          /\ WF_vars(AcquireTokens(p) /\ UNCHANGED <<wvars, rvars, xvars>>)
          /\ WF_vars(Attempt(p) /\ UNCHANGED <<wvars, rvars, xvars>>)
          /\ WF_vars(Response(p) /\ UNCHANGED <<wvars, rvars, xvars>>)
          /\ WF_vars(BackoffDone(p) /\ UNCHANGED <<wvars, rvars, xvars>>)
    /\ WF_vars((Tick \/ TickWhileWaiting) /\ UNCHANGED <<wvars, rvars, xvars>>)

\* Concurrent callers whose requests succeed, with an estimate within the
\* token budget (max_tokens = 1) or above it (no max_tokens: 150), while the
\* clock keeps running for the callers that sleep
NextAdmission ==
    \/ \E p \in Callers, mt \in {<< >>, <<1>>} :
          /\ callsMade < MaxWaiters
          /\ StartCall(p, 0, mt, None, << >>, 0)
          /\ UNCHANGED <<wvars, rvars, xvars>>
    \/ CallSteps /\ UNCHANGED <<wvars, rvars, xvars>>
    \/ TickWhileWaiting /\ UNCHANGED <<wvars, rvars, xvars>>

\* The event loop runs every coroutine that is ready, and time passes.
FairAdmission ==
    /\ \A p \in Callers :
          /\ WF_vars(AcquireRequest(p) /\ UNCHANGED <<wvars, rvars, xvars>>)
          /\ WF_vars(AcquireTokens(p) /\ UNCHANGED <<wvars, rvars, xvars>>)
          /\ WF_vars(Attempt(p) /\ UNCHANGED <<wvars, rvars, xvars>>)
          /\ WF_vars(Response(p) /\ UNCHANGED <<wvars, rvars, xvars>>)
    /\ WF_vars((Tick \/ TickWhileWaiting) /\ UNCHANGED <<wvars, rvars, xvars>>)

\* One caller whose requests succeed, with prompts of every length up to
\* MaxPromptLen and max_tokens absent or given
NextEstimate ==
    \/ \E len \in 0..MaxPromptLen, mt \in {<< >>, <<1>>, <<2>>} :
          StartCall(1, len, mt, None, << >>, 0) /\ UNCHANGED <<wvars, rvars, xvars>>
    \/ CallSteps /\ UNCHANGED <<wvars, rvars, xvars>>

\* Health checks and model listings whose request fails as scripted, next
\* to chat calls that succeed, one call at a time
ProbeScripts ==
    {<<None, << >>, 0>>, <<"RateLimitError", << >>, MaxFails>>,
     <<"APIError", <<500>>, 1>>, <<"Exception", << >>, 1>>}

NextProbe ==
    \/ \E op \in Probes, s \in ProbeScripts :
          StartProbe(1, op, s[1], s[2], s[3]) /\ UNCHANGED <<wvars, rvars, xvars>>
    \/ StartCall(1, MaxPromptLen, <<1>>, None, << >>, 0)
          /\ UNCHANGED <<wvars, rvars, xvars>>
    \/ CallSteps /\ UNCHANGED <<wvars, rvars, xvars>>
    \/ \E p \in Callers : BackoffDone(p) /\ UNCHANGED <<wvars, rvars, xvars>>

\* One caller at a time, whose request_func fails as scripted
NextRetry ==
    \/ \E len \in {0, MaxPromptLen}, mt \in {<< >>, <<1>>}, s \in Scripts :
          StartCall(1, len, mt, s[1], s[2], s[3]) /\ UNCHANGED <<wvars, rvars, xvars>>
    \/ CallSteps /\ UNCHANGED <<wvars, rvars, xvars>>
    \/ \E p \in Callers : BackoffDone(p) /\ UNCHANGED <<wvars, rvars, xvars>>

----------------------------------------------------------------------------
(* AIWebSocketManager and websocket_ai_endpoint.                           *)
(*                                                                         *)
(* Coroutines: one endpoint per websocket (websocket_ai_endpoint, which    *)
(* runs handle_message inline) and one asyncio.Task per chat stream        *)
(* (_stream_chat_response).  websocket.send_text either delivers the       *)
(* message or raises (closed socket) without yielding to other coroutines. *)
(* provider.chat_stream is consumed through `async for`: each iteration    *)
(* suspends and then yields a chunk, ends the stream, or raises.           *)

MaxTasks == 3
MaxChunks == 1
MaxMsgs == 2
MaxChats == 3

Sockets == {1, 2}
\* Connection ids: 0 is an id supplied by the caller in the URL
\* (/ws/ai/{connection_id}); w > 0 is the uuid4 generated for socket w.
ConnIds == {0} \cup Sockets
TaskIds == 1..MaxTasks

\* ai_router.providers and ai_router.default_provider
ConfiguredProviders == {"ollama", "huggingface"}
default_provider == "ollama"
Models == {"llama3.1", "m1"}

NoMeta ==
    [present |-> FALSE, messages_sent |-> 0, current_provider |-> None,
     current_model |-> None]

NewMeta ==
    [present |-> TRUE, messages_sent |-> 0, current_provider |-> None,
     current_model |-> None]

\* prov is the adapter the stream reads from; asked and prior note the
\* provider its chat_request named (None: none) and the current_provider of
\* the session when the request arrived (history only)
NoTask ==
    [state |-> "unborn", conn |-> 0, cancelReq |-> FALSE, k |-> 0, req |-> 0,
     stopAt |-> 0, liveAtStop |-> FALSE, reaped |-> FALSE, reapSendOk |-> FALSE,
     raised |-> FALSE, prov |-> None, asked |-> None, prior |-> None]

\* Note of the last control message an endpoint has handled (history only):
\* how many it has handled, the type and argument of the last one, the
\* result of the health probe run for it, and how its handling ended
NoNote == [n |-> 0, msg |-> None, arg |-> None, probe |-> None, end |-> None]

NoEp == [pc |-> "init", conn |-> 0, task |-> 0, req |-> 0, prov |-> None,
         model |-> None, last |-> NoNote]

\* AIWebSocketManager.__init__; every client has opened its websocket
InitWS ==
    /\ active_connections = [c \in ConnIds |-> 0]
    /\ connection_metadata = [c \in ConnIds |-> NoMeta]
    /\ active_streams = [c \in ConnIds |-> 0]
    /\ task = [t \in TaskIds |-> NoTask]
    /\ nextTask = 1
    /\ ep = [w \in Sockets |-> NoEp]
    /\ wsOpen = [w \in Sockets |-> TRUE]
    /\ inbox = [w \in Sockets |-> << >>]
    /\ msgsSent = 0
    /\ delivered = [c \in ConnIds |-> << >>]
    /\ models = [p \in ConfiguredProviders |-> {"llama3.1"}]
    /\ reqLog = << >>

\* The manager's dictionaries, the tasks and the transport log as one value,
\* threaded through the statements of a handler.
Mgr ==
    [ac |-> active_connections, md |-> connection_metadata,
     as |-> active_streams, tk |-> task, out |-> delivered, rl |-> reqLog,
     open |-> wsOpen]

\* The state a step starts from when the client of the websocket registered
\* for connection c has closed it since the last message was written to it
\* (closed = TRUE), or has not.
MgrAt(c, closed) ==
    IF closed /\ active_connections[c] # 0
    THEN [Mgr EXCEPT !.open[active_connections[c]] = FALSE]
    ELSE Mgr

Commit(S) ==
    /\ active_connections' = S.ac
    /\ connection_metadata' = S.md
    /\ active_streams' = S.as
    /\ task' = S.tk
    /\ delivered' = S.out
    /\ reqLog' = S.rl
    /\ wsOpen' = S.open

Live(tk, t) == tk[t].state \in {"pending", "running"}

\* asyncio.Task.cancel(): requests cancellation; no effect on a finished task
TaskCancel_Mut(S, t) == S
TaskCancel(S, t) ==
    IF Live(S.tk, t) THEN [S EXCEPT !.tk[t].cancelReq = TRUE] ELSE S

\* AIWebSocketManager.disconnect
disconnect_Mut(S, c) ==
    IF S.ac[c] = 0 THEN S
    ELSE LET S1 == IF S.as[c] # 0 THEN TaskCancel(S, S.as[c]) ELSE S
         IN [S1 EXCEPT !.ac[c] = 0, !.md[c] = NoMeta]
disconnect(S, c) ==
    IF S.ac[c] = 0 THEN S
    ELSE LET S1 == IF S.as[c] # 0
                   THEN [TaskCancel(S, S.as[c]) EXCEPT !.as[c] = 0]
                   ELSE S
         IN [S1 EXCEPT !.ac[c] = 0, !.md[c] = NoMeta]

Ev(type, stream, k) == [type |-> type, stream |-> stream, k |-> k]

\* AIWebSocketManager._send_message
send_message_Mut(S, c, ev) ==
    IF S.ac[c] = 0 THEN S
    ELSE IF S.open[S.ac[c]]
         THEN [S EXCEPT !.out[c] = Append(@, [ws |-> S.ac[c],
                                              type |-> ev.type,
                                              stream |-> ev.stream,
                                              k |-> ev.k])]
         ELSE S
send_message(S, c, ev) ==
    IF S.ac[c] = 0 THEN S
    ELSE IF S.open[S.ac[c]]
         THEN [S EXCEPT !.out[c] = Append(@, [ws |-> S.ac[c],
                                              type |-> ev.type,
                                              stream |-> ev.stream,
                                              k |-> ev.k])]
         ELSE disconnect(S, c)

\* AIWebSocketManager._send_error
send_error(S, c, stream) == send_message(S, c, Ev("error", stream, 0))

\* Note of a message emitted for a tracked request (history only)
Emit(S, r, type) ==
    IF r = 0 THEN S ELSE [S EXCEPT !.rl[r].emitted = Append(@, type)]

\* AIWebSocketManager.connect, called first by websocket_ai_endpoint
Connect(w, cid) ==
    /\ ep[w].pc = "init"
    /\ wsOpen[w]
    /\ LET S1 == [Mgr EXCEPT !.ac[cid] = w, !.md[cid] = NewMeta]
           S2 == send_message(S1, cid, Ev("connection", 0, 0))
       IN Commit(S2)
    /\ ep' = [ep EXCEPT ![w].pc = "receive", ![w].conn = cid]
    /\ UNCHANGED <<nextTask, inbox, msgsSent, msgBudget, models>>

\* Messages a client can send: chat_request (provider omitted or named,
\* model in the catalog or not) and stop_generation
ClientMessages ==
    {[type |-> "chat_request", provider |-> pm[1], model |-> pm[2]] :
        pm \in {<<None, "llama3.1">>, <<"huggingface", "m1">>}}
      \cup {[type |-> "stop_generation", provider |-> None, model |-> None]}

\* The client of websocket w sends a message while the endpoint is not at
\* receive_text: it waits in the inbox.  `during` notes the stream of this
\* endpoint that is in progress when a stop_generation is sent.
ClientSend(w, m) ==
    /\ wsOpen[w]
    /\ ep[w].pc \in {"await_task", "await_load"}
    /\ msgsSent < msgBudget
    /\ msgsSent' = msgsSent + 1
    /\ LET t == ep[w].task
           during == IF /\ m.type = "stop_generation"
                        /\ ep[w].pc = "await_task"
                        /\ Live(task, t) /\ ~task[t].cancelReq
                     THEN t ELSE 0
       IN inbox' = [inbox EXCEPT ![w] =
                      Append(@, [type |-> m.type, provider |-> m.provider,
                                 model |-> m.model, during |-> during])]
    /\ UNCHANGED <<active_connections, connection_metadata, active_streams,
                   task, nextTask, ep, wsOpen, msgBudget, delivered, models,
                   reqLog>>

\* `await websocket.receive_text()` returns message m: the oldest unread
\* message, or one the client sends while the endpoint waits for it.
Incoming(w, m) ==
    /\ ep[w].pc = "receive"
    /\ \/ /\ inbox[w] # << >>
          /\ m = Head(inbox[w])
          /\ inbox' = [inbox EXCEPT ![w] = Tail(@)]
          /\ UNCHANGED msgsSent
       \/ /\ inbox[w] = << >>
          /\ wsOpen[w]
          /\ msgsSent < msgBudget
          /\ m.during = 0
          /\ msgsSent' = msgsSent + 1
          /\ UNCHANGED inbox

\* AIWebSocketManager._start_chat_stream up to `await task`
StartChatStream(w, S, c, r, provider, asked, prior) ==
    /\ nextTask <= MaxTasks
    /\ LET t == nextTask
           S1 == IF S.as[c] # 0 THEN TaskCancel(S, S.as[c]) ELSE S
           S2 == [S1 EXCEPT !.tk[t] = [NoTask EXCEPT !.state = "pending",
                                                     !.conn = c, !.req = r,
                                                     !.prov = provider,
                                                     !.asked = asked,
                                                     !.prior = prior],
                            !.as[c] = t]
       IN /\ Commit(S2)
          /\ nextTask' = t + 1
          /\ ep' = [ep EXCEPT ![w].pc = "await_task", ![w].task = t,
                              ![w].req = 0, ![w].prov = None,
                              ![w].model = None]

\* The value every shipped adapter's load_model returns
load_model_result_Mut == "True"
load_model_result == None

\* if not success
LoadFailed_Mut(success) == FALSE
LoadFailed(success) == success \in {"None", "False"}

\* _handle_chat_request after `success = await provider.load_model(model)`
AfterLoad(w, S, c, r, success) ==
    IF LoadFailed(success)
    THEN /\ Commit([send_error(Emit(S, r, "error"), c, 0)
                      EXCEPT !.rl[r].done = TRUE])
         /\ ep' = [ep EXCEPT ![w].pc = "receive", ![w].req = 0,
                             ![w].prov = None, ![w].model = None]
         /\ UNCHANGED nextTask
    ELSE StartChatStream(w, [S EXCEPT !.rl[r].loaded = (success = "True")], c, r,
                         ep[w].prov, ep[w].prov, None)

\* The note of one more handled message
Note(w, msg, arg, probe, end) ==
    [n |-> ep[w].last.n + 1, msg |-> msg, arg |-> arg, probe |-> probe,
     end |-> end]

\* An exception is raised inside a handler's try block: its
\* `except Exception` clause sends an error, the handler and handle_message
\* return, and the endpoint goes back to receive_text.
HandlerExcept_Mut(w, S, c, note) ==
    /\ Commit(disconnect(S, c))
    /\ ep' = [ep EXCEPT ![w].pc = "closed", ![w].last = note]
HandlerExcept(w, S, c, note) ==
    /\ Commit(send_error(S, c, 0))
    /\ ep' = [ep EXCEPT ![w].pc = "receive", ![w].req = 0, ![w].prov = None,
                        ![w].model = None, ![w].last = note]

\* provider_name = data.get("provider"); ai_router.get_provider(provider_name);
\* provider_name = provider_name or ai_router.default_provider.  The
\* session's metadata is not consulted.
ChatProvider_Mut(m, meta) ==
    IF m.provider # None THEN m.provider
    ELSE IF meta.current_provider # None THEN meta.current_provider
    ELSE default_provider
ChatProvider(m, meta) ==
    IF m.provider = None THEN default_provider ELSE m.provider

\* websocket_ai_endpoint receives a chat_request; handle_message and
\* _handle_chat_request run up to their first suspension.
ReceiveChatRequest(w, m, closed) ==
    /\ m.type = "chat_request"
    /\ Incoming(w, m)
    /\ LET c == ep[w].conn
           provider_name == ChatProvider(m, connection_metadata[c])
       IN IF provider_name \notin ConfiguredProviders
          THEN \* ValueError from ai_router.get_provider
               /\ HandlerExcept(w, MgrAt(c, closed), c,
                                Note(w, "chat_request", provider_name, None,
                                     "unknown_provider"))
               /\ UNCHANGED nextTask
          ELSE IF ~connection_metadata[c].present
          THEN \* KeyError on connection_metadata[connection_id]
               /\ Commit(send_error(MgrAt(c, closed), c, 0))
               /\ UNCHANGED <<ep, nextTask>>
          ELSE LET S1 == [MgrAt(c, closed) EXCEPT
                                     !.md[c].current_provider = provider_name,
                                     !.md[c].current_model = m.model]
               IN IF m.model \notin models[provider_name]
                  THEN LET r == Len(S1.rl) + 1
                           S2 == [S1 EXCEPT !.rl = Append(@,
                                    [emitted |-> <<"model_loading">>,
                                     loaded |-> FALSE, done |-> FALSE])]
                           S3 == send_message(S2, c, Ev("model_loading", 0, 0))
                       IN \* success = await provider.load_model(model)
                          /\ Commit(S3)
                          /\ ep' = [ep EXCEPT ![w].pc = "await_load",
                                              ![w].req = r,
                                              ![w].prov = provider_name,
                                              ![w].model = m.model]
                          /\ UNCHANGED nextTask
                  ELSE StartChatStream(w, S1, c, 0, provider_name, m.provider,
                                       connection_metadata[c].current_provider)
    /\ UNCHANGED <<models, msgBudget>>

\* provider.load_model returns.  HuggingFaceProvider.load_model verified or
\* loaded the model (ok, provider.models gains it) or not; the other
\* adapters do nothing (not ok).  The return value is the same.
LoadDone(w, ok, closed) ==
    /\ ep[w].pc = "await_load"
    /\ ok => ep[w].prov = "huggingface"
    /\ models' = IF ok THEN [models EXCEPT ![ep[w].prov] = @ \cup {ep[w].model}]
                 ELSE models
    /\ AfterLoad(w, MgrAt(ep[w].conn, closed), ep[w].conn, ep[w].req,
                 load_model_result)
    /\ UNCHANGED <<inbox, msgsSent, msgBudget>>

\* websocket_ai_endpoint receives a stop_generation; _handle_stop_generation
ReceiveStopGeneration(w, m, closed) ==
    /\ m.type = "stop_generation"
    /\ Incoming(w, m)
    /\ LET c == ep[w].conn
           t == active_streams[c]
       IN IF t # 0
          THEN LET S0 == IF task[t].stopAt = 0
                         THEN [MgrAt(c, closed) EXCEPT
                                   !.tk[t].stopAt = Len(delivered[c]) + 1,
                                   !.tk[t].liveAtStop = Live(task, t)]
                         ELSE MgrAt(c, closed)
                   S1 == TaskCancel(S0, t)
               IN Commit(send_message(S1, c, Ev("generation_stopped", 0, 0)))
          ELSE Commit(send_message(MgrAt(c, closed), c,
                                   Ev("no_active_generation", 0, 0)))
    /\ UNCHANGED <<nextTask, ep, models, msgBudget>>

\* Messages that handle_message or the endpoint rejects without looking at
\* the session: text that is not JSON (json.JSONDecodeError in the endpoint),
\* a type that handle_message does not know, and a chat_request whose data
\* has no 'messages'
MalformedTypes ==
    {"invalid_json", "unknown_type", "chat_request_without_messages"}

\* websocket_ai_endpoint receives a malformed message: each of the three
\* paths is one call of _send_error and nothing else.
ReceiveMalformed_Mut(w, m, closed) ==
    /\ m.type \in MalformedTypes
    /\ Incoming(w, m)
    /\ LET c == ep[w].conn
       IN Commit(disconnect(send_error(MgrAt(c, closed), c, 0), c))
    /\ ep' = [ep EXCEPT ![w].last = Note(w, m.type, None, None, "rejected")]
    /\ UNCHANGED <<nextTask, models, msgBudget>>
ReceiveMalformed(w, m, closed) ==
    /\ m.type \in MalformedTypes
    /\ Incoming(w, m)
    /\ LET c == ep[w].conn
       IN Commit(send_error(MgrAt(c, closed), c, 0))
    /\ ep' = [ep EXCEPT ![w].last = Note(w, m.type, None, None, "rejected")]
    /\ UNCHANGED <<nextTask, models, msgBudget>>

\* health_check of adapter n whose backend is in the given state.
\* OllamaProvider does not override AIProvider.health_check, which returns
\* True without contacting the daemon; OpenAIProvider lists the models and
\* HuggingFaceProvider gets a model page, both inside try/except Exception
\* returning False.
health_check(n, backend) ==
    CASE n = "ollama" -> TRUE
      [] n = "openai" -> backend = "healthy"
      [] n = "huggingface" -> backend = "healthy"

\* The adapters whose health_check awaits the backend
ProbeAwaitsBackend(n) == n \in {"openai", "huggingface"}

\* if not is_healthy: ... return
ProbeAllowsSwitch_Mut(is_healthy) == TRUE
ProbeAllowsSwitch(is_healthy) == is_healthy

\* _handle_switch_provider after `is_healthy = await provider.health_check()`
AfterProbe(w, S, c, P, is_healthy) ==
    LET probe == IF is_healthy THEN "True" ELSE "False"
    IN IF ~ProbeAllowsSwitch(is_healthy)
       THEN /\ Commit(send_error(S, c, 0))
            /\ ep' = [ep EXCEPT ![w].pc = "receive", ![w].prov = None,
                         ![w].last = Note(w, "switch_provider", P, probe,
                                          "unhealthy")]
       ELSE IF ~S.md[c].present
       THEN \* KeyError on connection_metadata[connection_id]
            HandlerExcept(w, S, c,
                          Note(w, "switch_provider", P, probe, "KeyError"))
       ELSE /\ Commit(send_message([S EXCEPT !.md[c].current_provider = P],
                                   c, Ev("provider_switched", 0, 0)))
            /\ ep' = [ep EXCEPT ![w].pc = "receive", ![w].prov = None,
                         ![w].last = Note(w, "switch_provider", P, probe,
                                          "switched")]

\* websocket_ai_endpoint receives a switch_provider; _handle_switch_provider
\* runs to its end, or up to the await of a health_check that contacts the
\* backend.
ReceiveSwitchProvider(w, m, closed) ==
    /\ m.type = "switch_provider"
    /\ Incoming(w, m)
    /\ LET c == ep[w].conn
           P == m.provider
           S == MgrAt(c, closed)
       IN IF P = None
          THEN \* if not new_provider
               /\ Commit(send_error(S, c, 0))
               /\ ep' = [ep EXCEPT ![w].last =
                            Note(w, "switch_provider", None, None, "rejected")]
          ELSE IF P \notin ConfiguredProviders
          THEN \* if new_provider not in ai_router.providers
               /\ Commit(send_error(S, c, 0))
               /\ ep' = [ep EXCEPT ![w].last =
                            Note(w, "switch_provider", P, None,
                                 "not_available")]
          ELSE IF ProbeAwaitsBackend(P)
          THEN /\ Commit(S)
               /\ ep' = [ep EXCEPT ![w].pc = "await_probe", ![w].prov = P]
          ELSE AfterProbe(w, S, c, P, health_check(P, "healthy"))
    /\ UNCHANGED <<nextTask, models, msgBudget>>

\* The awaited health_check returns: the backend answered (healthy) or not
SwitchProbeDone(w, backend, closed) ==
    /\ ep[w].pc = "await_probe"
    /\ AfterProbe(w, MgrAt(ep[w].conn, closed), ep[w].conn, ep[w].prov,
                  health_check(ep[w].prov, backend))
    /\ UNCHANGED <<nextTask, inbox, msgsSent, msgBudget, models>>

\* websocket_ai_endpoint receives a load_model; _handle_load_model runs up
\* to `await provider.load_model(model_name)`.
ReceiveLoadModel(w, m, closed) ==
    /\ m.type = "load_model"
    /\ Incoming(w, m)
    /\ LET c == ep[w].conn
           provider_name == IF m.provider = None THEN default_provider
                            ELSE m.provider
           S == MgrAt(c, closed)
       IN IF m.model = None
          THEN \* if not model_name
               /\ Commit(send_error(S, c, 0))
               /\ ep' = [ep EXCEPT ![w].last =
                            Note(w, "load_model", None, None, "rejected")]
          ELSE IF provider_name \notin ConfiguredProviders
          THEN \* ValueError from ai_router.get_provider
               HandlerExcept(w, S, c,
                             Note(w, "load_model", provider_name, None,
                                  "unknown_provider"))
          ELSE /\ Commit(send_message(S, c, Ev("model_loading", 0, 0)))
               /\ ep' = [ep EXCEPT ![w].pc = "await_load_model",
                                   ![w].prov = provider_name,
                                   ![w].model = m.model]
    /\ UNCHANGED <<nextTask, models, msgBudget>>

\* provider.load_model returns to _handle_load_model (see LoadDone): the
\* model is recorded and model_loaded sent, or an error is sent.
LoadModelDone(w, ok, closed) ==
    /\ ep[w].pc = "await_load_model"
    /\ ok => ep[w].prov = "huggingface"
    /\ models' = IF ok THEN [models EXCEPT ![ep[w].prov] = @ \cup {ep[w].model}]
                 ELSE models
    /\ LET c == ep[w].conn
           S == MgrAt(c, closed)
       IN IF LoadFailed(load_model_result)
          THEN /\ Commit(send_error(S, c, 0))
               /\ ep' = [ep EXCEPT ![w].pc = "receive", ![w].prov = None,
                            ![w].model = None,
                            ![w].last = Note(w, "load_model", ep[w].model,
                                             None, "load_failed")]
          ELSE IF ~S.md[c].present
          THEN \* KeyError on connection_metadata[connection_id]
               HandlerExcept(w, S, c,
                             Note(w, "load_model", ep[w].model, None,
                                  "KeyError"))
          ELSE /\ Commit(send_message(
                            [S EXCEPT !.md[c].current_model = ep[w].model],
                            c, Ev("model_loaded", 0, 0)))
               /\ ep' = [ep EXCEPT ![w].pc = "receive", ![w].prov = None,
                            ![w].model = None,
                            ![w].last = Note(w, "load_model", ep[w].model,
                                             None, "model_loaded")]
    /\ UNCHANGED <<nextTask, inbox, msgsSent, msgBudget>>

\* receive_text raises because the client has closed the websocket: the
\* loop breaks and the finally clause calls disconnect(connection_id).
ReceiveDisconnect(w) ==
    /\ ep[w].pc = "receive"
    /\ inbox[w] = << >>
    /\ Commit(disconnect([Mgr EXCEPT !.open[w] = FALSE], ep[w].conn))
    /\ ep' = [ep EXCEPT ![w].pc = "closed"]
    /\ UNCHANGED <<nextTask, inbox, msgsSent, msgBudget, models>>

\* How a task that stops running ends: Task.__step turns a pending
\* cancellation request into a cancelled task even if the coroutine returned.
EndState(S, t) == IF S.tk[t].cancelReq THEN "cancelled" ELSE "finished"

\* First step of _stream_chat_response: stream_start, then the first
\* iteration of `async for` suspends.
TaskStart(t, closed) ==
    /\ task[t].state = "pending"
    /\ ~task[t].cancelReq
    /\ LET c == task[t].conn
           r == task[t].req
       IN IF ~connection_metadata[c].present
          THEN \* KeyError building the message; _send_error finds no connection
               LET S1 == send_error(MgrAt(c, closed), c, t)
               IN Commit([S1 EXCEPT !.tk[t].state = EndState(S1, t)])
          ELSE LET S1 == send_message(Emit(MgrAt(c, closed), r, "stream_start"), c,
                                      Ev("stream_start", t, 0))
               IN Commit([S1 EXCEPT !.tk[t].state = "running"])
    /\ UNCHANGED <<nextTask, ep, inbox, msgsSent, msgBudget, models>>

\* The adapter yields a chunk: stream_content is sent.
TaskChunk_Mut(t, closed) ==
    /\ task[t].state = "running"
    /\ ~task[t].cancelReq
    /\ task[t].k < MaxChunks
    /\ Commit([MgrAt(task[t].conn, closed) EXCEPT !.tk[t].k = @ + 1])
    /\ UNCHANGED <<nextTask, ep, inbox, msgsSent, msgBudget, models>>
TaskChunk(t, closed) ==
    /\ task[t].state = "running"
    /\ ~task[t].cancelReq
    /\ task[t].k < MaxChunks
    /\ LET c == task[t].conn
           S1 == send_message(MgrAt(c, closed), c,
                              Ev("stream_content", t, task[t].k + 1))
       IN Commit([S1 EXCEPT !.tk[t].k = @ + 1])
    /\ UNCHANGED <<nextTask, ep, inbox, msgsSent, msgBudget, models>>

\* The adapter's stream ends: stream_complete, messages_sent += 1.
TaskComplete(t, closed) ==
    /\ task[t].state = "running"
    /\ ~task[t].cancelReq
    /\ LET c == task[t].conn
           S1 == send_message(MgrAt(c, closed), c, Ev("stream_complete", t, 0))
           S2 == IF S1.md[c].present
                 THEN [S1 EXCEPT !.md[c].messages_sent = @ + 1]
                 ELSE send_error(S1, c, t)
       IN Commit([S2 EXCEPT !.tk[t].state = EndState(S2, t)])
    /\ UNCHANGED <<nextTask, ep, inbox, msgsSent, msgBudget, models>>

\* The adapter raises while streaming: except Exception -> _send_error.
TaskFail_Mut(t, closed) ==
    /\ task[t].state = "running"
    /\ ~task[t].cancelReq
    /\ LET c == task[t].conn
           S1 == disconnect(send_error(MgrAt(c, closed), c, t), c)
       IN Commit([S1 EXCEPT !.tk[t].state = EndState(S1, t),
                            !.tk[t].raised = TRUE])
    /\ UNCHANGED <<nextTask, ep, inbox, msgsSent, msgBudget, models>>
TaskFail(t, closed) ==
    /\ task[t].state = "running"
    /\ ~task[t].cancelReq
    /\ LET c == task[t].conn
           S1 == send_error(MgrAt(c, closed), c, t)
       IN Commit([S1 EXCEPT !.tk[t].state = EndState(S1, t),
                            !.tk[t].raised = TRUE])
    /\ UNCHANGED <<nextTask, ep, inbox, msgsSent, msgBudget, models>>

\* CancelledError is thrown into the task at its suspension point (or
\* before its first step); nothing in _stream_chat_response catches it.
TaskCancelled(t) ==
    /\ Live(task, t)
    /\ task[t].cancelReq
    /\ task' = [task EXCEPT ![t].state = "cancelled"]
    /\ UNCHANGED <<active_connections, connection_metadata, active_streams,
                   nextTask, ep, wsOpen, inbox, msgsSent, msgBudget, delivered,
                   models, reqLog>>

\* `await task` in _start_chat_stream returns or raises CancelledError; the
\* except and finally clauses run and handle_message returns.
AwaitDone(w, closed) ==
    /\ ep[w].pc = "await_task"
    /\ task[ep[w].task].state \in {"finished", "cancelled"}
    /\ LET t == ep[w].task
           c == ep[w].conn
           S0 == MgrAt(c, closed)
           ok == S0.ac[c] # 0 /\ S0.open[S0.ac[c]]
           S1 == IF task[t].state = "cancelled"
                 THEN send_message(S0, c, Ev("stream_cancelled", t, 0))
                 ELSE S0
           S2 == IF S1.as[c] # 0 THEN [S1 EXCEPT !.as[c] = 0] ELSE S1
       IN Commit([S2 EXCEPT !.tk[t].reaped = TRUE, !.tk[t].reapSendOk = ok])
    /\ ep' = [ep EXCEPT ![w].pc = "receive", ![w].task = 0]
    /\ UNCHANGED <<nextTask, inbox, msgsSent, msgBudget, models>>

\* The ids websocket w may connect with: the caller-supplied id 0, or its
\* own uuid4.  Two websockets that both use their own uuid4 are independent
\* sessions; websocket 1 always takes the supplied id.
ConnectIds(w) == IF w = 1 THEN {0} ELSE {0, w}

\* Messages as they are read by the endpoint
InboxMessages ==
    {[type |-> m.type, provider |-> m.provider, model |-> m.model,
      during |-> d] : m \in ClientMessages, d \in {0} \cup TaskIds}

NextWS ==
    \/ \E w \in Sockets : \E cid \in ConnectIds(w) :
          Connect(w, cid) /\ UNCHANGED <<pvars, rvars, xvars>>
    \/ \E w \in Sockets, m \in ClientMessages :
          ClientSend(w, m) /\ UNCHANGED <<pvars, rvars, xvars>>
    \/ \E w \in Sockets, m \in InboxMessages, closed \in BOOLEAN :
          ReceiveChatRequest(w, m, closed) /\ UNCHANGED <<pvars, rvars, xvars>>
    \/ \E w \in Sockets, ok \in BOOLEAN, closed \in BOOLEAN :
          LoadDone(w, ok, closed) /\ UNCHANGED <<pvars, rvars, xvars>>
    \/ \E w \in Sockets, m \in InboxMessages, closed \in BOOLEAN :
          ReceiveStopGeneration(w, m, closed) /\ UNCHANGED <<pvars, rvars, xvars>>
    \/ \E w \in Sockets : ReceiveDisconnect(w) /\ UNCHANGED <<pvars, rvars, xvars>>
    \/ \E t \in TaskIds, closed \in BOOLEAN :
          TaskStart(t, closed) /\ UNCHANGED <<pvars, rvars, xvars>>
    \/ \E t \in TaskIds, closed \in BOOLEAN :
          TaskChunk(t, closed) /\ UNCHANGED <<pvars, rvars, xvars>>
    \/ \E t \in TaskIds, closed \in BOOLEAN :
          TaskComplete(t, closed) /\ UNCHANGED <<pvars, rvars, xvars>>
    \/ \E t \in TaskIds, closed \in BOOLEAN :
          TaskFail(t, closed) /\ UNCHANGED <<pvars, rvars, xvars>>
    \/ \E t \in TaskIds : TaskCancelled(t) /\ UNCHANGED <<pvars, rvars, xvars>>
    \/ \E w \in Sockets, closed \in BOOLEAN :
          AwaitDone(w, closed) /\ UNCHANGED <<pvars, rvars, xvars>>

\* Overlapping chat requests only: every websocket connects with the
\* caller-supplied id, every message is a chat_request for a catalogued model
\* and no client closes its websocket.
ChatOnly ==
    [type |-> "chat_request", provider |-> None, model |-> "llama3.1",
     during |-> 0]

NextOverlap ==
    \/ \E w \in Sockets : Connect(w, 0) /\ UNCHANGED <<pvars, rvars, xvars>>
    \/ \E w \in Sockets : ReceiveChatRequest(w, ChatOnly, FALSE) /\ UNCHANGED <<pvars, rvars, xvars>>
    \/ \E t \in TaskIds : TaskStart(t, FALSE) /\ UNCHANGED <<pvars, rvars, xvars>>
    \/ \E t \in TaskIds : TaskChunk(t, FALSE) /\ UNCHANGED <<pvars, rvars, xvars>>
    \/ \E t \in TaskIds : TaskComplete(t, FALSE) /\ UNCHANGED <<pvars, rvars, xvars>>
    \/ \E t \in TaskIds : TaskFail(t, FALSE) /\ UNCHANGED <<pvars, rvars, xvars>>
    \/ \E t \in TaskIds : TaskCancelled(t) /\ UNCHANGED <<pvars, rvars, xvars>>
    \/ \E w \in Sockets : AwaitDone(w, FALSE) /\ UNCHANGED <<pvars, rvars, xvars>>

\* Control traffic next to a chat: websocket 1 sends chat requests for a
\* configured provider, websocket 2 (with the same connection id or its own)
\* sends malformed messages, switch_provider, load_model and chat requests
\* naming no provider or an unknown one, and may have closed before a reply
\* is written.
ChatMessages ==
    {[type |-> "chat_request", provider |-> pm[1], model |-> pm[2],
      during |-> 0] :
        pm \in {<<None, "llama3.1">>, <<"huggingface", "m1">>}}

ControlMessages ==
    {[type |-> ty, provider |-> None, model |-> None, during |-> 0] :
        ty \in MalformedTypes}
      \cup {[type |-> "switch_provider", provider |-> P, model |-> None,
              during |-> 0] :
                P \in {None, "nonexistent"} \cup ConfiguredProviders}
      \cup {[type |-> "load_model", provider |-> pm[1], model |-> pm[2],
              during |-> 0] :
                pm \in {<<None, None>>, <<"nonexistent", "m1">>,
                        <<"huggingface", "m1">>}}
      \cup {[type |-> "chat_request", provider |-> P,
              model |-> "llama3.1", during |-> 0] : P \in {None, "nonexistent"}}

NextControl ==
    \/ \E w \in Sockets : \E cid \in ConnectIds(w) :
          Connect(w, cid) /\ UNCHANGED <<pvars, rvars, xvars>>
    \/ \E m \in ControlMessages, closed \in BOOLEAN :
          ReceiveMalformed(2, m, closed) /\ UNCHANGED <<pvars, rvars, xvars>>
    \/ \E m \in ControlMessages, closed \in BOOLEAN :
          ReceiveSwitchProvider(2, m, closed) /\ UNCHANGED <<pvars, rvars, xvars>>
    \/ \E backend \in {"healthy", "unhealthy"}, closed \in BOOLEAN :
          SwitchProbeDone(2, backend, closed) /\ UNCHANGED <<pvars, rvars, xvars>>
    \/ \E m \in ControlMessages, closed \in BOOLEAN :
          ReceiveLoadModel(2, m, closed) /\ UNCHANGED <<pvars, rvars, xvars>>
    \/ \E ok \in BOOLEAN, closed \in BOOLEAN :
          LoadModelDone(2, ok, closed) /\ UNCHANGED <<pvars, rvars, xvars>>
    \/ \E m \in ControlMessages, closed \in BOOLEAN :
          ReceiveChatRequest(2, m, closed) /\ UNCHANGED <<pvars, rvars, xvars>>
    \/ \E m \in ChatMessages :
          ReceiveChatRequest(1, m, FALSE) /\ UNCHANGED <<pvars, rvars, xvars>>
    \/ \E ok \in BOOLEAN : LoadDone(1, ok, FALSE) /\ UNCHANGED <<pvars, rvars, xvars>>
    \/ \E w \in Sockets : ReceiveDisconnect(w) /\ UNCHANGED <<pvars, rvars, xvars>>
    \/ \E t \in TaskIds : TaskStart(t, FALSE) /\ UNCHANGED <<pvars, rvars, xvars>>
    \/ \E t \in TaskIds : TaskChunk(t, FALSE) /\ UNCHANGED <<pvars, rvars, xvars>>
    \/ \E t \in TaskIds : TaskComplete(t, FALSE) /\ UNCHANGED <<pvars, rvars, xvars>>
    \/ \E t \in TaskIds : TaskFail(t, FALSE) /\ UNCHANGED <<pvars, rvars, xvars>>
    \/ \E t \in TaskIds : TaskCancelled(t) /\ UNCHANGED <<pvars, rvars, xvars>>
    \/ \E w \in Sockets : AwaitDone(w, FALSE) /\ UNCHANGED <<pvars, rvars, xvars>>

\* The provider side at rest, for the websocket specification
InitProviderIdle ==
    /\ InitProvider
    /\ requests_per_minute = MaxRPM
    /\ max_retries = MaxAttempts

----------------------------------------------------------------------------
(* AIRouter (apps/api/src/ai/router.py).                                   *)

\* The adapters setup_providers can build, in the order it builds them
BuildOrder == <<"ollama", "openai", "huggingface">>
RouterNames == {BuildOrder[i] : i \in DOMAIN BuildOrder}

Environments == {"development", "production"}

\* core.config.get_ai_provider_for_environment
get_ai_provider_for_environment(environment) ==
    CASE environment = "development" -> "ollama"
      [] environment = "staging" -> "openai"
      [] environment = "production" -> "openai"
      [] OTHER -> "ollama"

\* Configurations: each adapter enabled or not, the OpenAI key set or not,
\* at most one adapter whose constructor raises
Configs ==
    [enabled : [RouterNames -> BOOLEAN], api_key : BOOLEAN,
     fails : RouterNames \cup {None}, environment : Environments]

\* State of the adapters' backends: all healthy, or one of them unhealthy
\* (unreachable or answering with an error) or hanging (it never answers)
HealthStates ==
    {[n \in RouterNames |-> "healthy"]}
      \cup {[n \in RouterNames |-> IF n = b THEN h ELSE "healthy"] :
              b \in RouterNames, h \in {"unhealthy", "hangs"}}

NoResolution ==
    [name |-> None, error |-> None, provider |-> None, called |-> "none"]

IdleCheck == [pc |-> "idle", idx |-> 0, results |-> << >>]

\* The module is imported; AIRouter() has not run yet
InitRouter ==
    /\ cfg \in Configs
    /\ providers = << >>
    /\ router_default = None
    /\ router_pc = "new"
    /\ health \in HealthStates
    /\ hc = IdleCheck
    /\ resolved = NoResolution

\* A router that plays no part
InitRouterIdle ==
    /\ cfg = [enabled |-> [n \in RouterNames |-> FALSE], api_key |-> FALSE,
              fails |-> None, environment |-> "development"]
    /\ providers = << >>
    /\ router_default = None
    /\ router_pc = "new"
    /\ health = [n \in RouterNames |-> "healthy"]
    /\ hc = IdleCheck
    /\ resolved = NoResolution

\* The conditions under which setup_providers constructs adapter n
Builds(c, n) ==
    CASE n = "ollama" -> c.enabled["ollama"]
      [] n = "openai" -> c.enabled["openai"] /\ c.api_key
      [] n = "huggingface" -> c.enabled["huggingface"]

\* The try block of setup_providers from the i-th adapter on, reg being the
\* adapters registered so far.  An exception leaves the block: the except
\* clause logs, and default_provider keeps the None of __init__.
RECURSIVE SetupFrom(_, _, _)
SetupFrom(c, i, reg) ==
    IF i > Len(BuildOrder)
    THEN [providers |-> reg,
          default_provider |-> get_ai_provider_for_environment(c.environment)]
    ELSE IF ~Builds(c, BuildOrder[i]) THEN SetupFrom(c, i + 1, reg)
    ELSE IF c.fails = BuildOrder[i]
    THEN [providers |-> reg, default_provider |-> None]
    ELSE SetupFrom(c, i + 1, Append(reg, BuildOrder[i]))

\* AIRouter.__init__ and setup_providers
Setup ==
    /\ router_pc = "new"
    /\ LET r == SetupFrom(cfg, 1, << >>)
       IN /\ providers' = r.providers
          /\ router_default' = r.default_provider
    /\ router_pc' = "ready"
    /\ UNCHANGED <<cfg, health, hc, resolved>>

Registered(provs) == {provs[i] : i \in DOMAIN provs}

\* provider_name or self.default_provider: None and "" are falsy
NameOrDefault(name, default) == IF name \in {None, ""} THEN default ELSE name

\* if provider_name not in self.providers
NotConfigured_Mut(n, provs) == n \notin RouterNames
NotConfigured(n, provs) == n \notin Registered(provs)

\* AIRouter.get_provider: the adapter, or ValueError
get_provider_Mut(name) ==
    LET n == NameOrDefault(name, router_default)
        ok == {m \in Registered(providers) : health[m] = "healthy"}
    IN IF NotConfigured(n, providers)
       THEN [error |-> "ValueError", provider |-> None]
       ELSE IF health[n] # "healthy" /\ ok # {}
            THEN [error |-> None, provider |-> CHOOSE m \in ok : TRUE]
            ELSE [error |-> None, provider |-> n]
get_provider(name) ==
    LET n == NameOrDefault(name, router_default)
    IN IF NotConfigured(n, providers)
       THEN [error |-> "ValueError", provider |-> None]
       ELSE [error |-> None, provider |-> n]

\* Names a caller may pass to get_provider
RequestNames == {None, "", "nonexistent"} \cup RouterNames

\* A caller calls get_provider(name)
Resolve(name) ==
    /\ router_pc = "ready"
    /\ LET r == get_provider(name)
       IN resolved' = [name |-> name, error |-> r.error,
                       provider |-> r.provider, called |-> "no"]
    /\ UNCHANGED <<cfg, providers, router_default, router_pc, health, hc>>

\* The caller makes its call on the adapter it was given: it succeeds on a
\* healthy adapter and fails on an unhealthy one.
CallAdapter ==
    /\ resolved.called = "no"
    /\ resolved.error = None
    /\ health[resolved.provider] # "hangs"
    /\ resolved' = [resolved EXCEPT !.called =
                       IF health[resolved.provider] = "healthy"
                       THEN "ok" ELSE "failed"]
    /\ UNCHANGED <<cfg, providers, router_default, router_pc, health, hc>>

\* health_check_all up to its first await: results = {} and the first
\* adapter's health_check is awaited (or there is none and it returns)
HealthCheckStart ==
    /\ router_pc = "ready"
    /\ hc.pc = "idle"
    /\ hc' = IF providers = << >>
             THEN [pc |-> "done", idx |-> 0, results |-> << >>]
             ELSE [pc |-> "probing", idx |-> 1, results |-> << >>]
    /\ UNCHANGED <<cfg, providers, router_default, router_pc, health,
                   resolved>>

\* The awaited health_check returns or raises: its result is stored (False
\* when it raised) and the loop goes on to the next adapter, or returns.
ProbeReturns ==
    /\ hc.pc = "probing"
    /\ LET n == providers[hc.idx]
       IN /\ ~(ProbeAwaitsBackend(n) /\ health[n] = "hangs")
          /\ hc' = [pc |-> IF hc.idx = Len(providers) THEN "done"
                           ELSE "probing",
                    idx |-> IF hc.idx = Len(providers) THEN 0
                            ELSE hc.idx + 1,
                    results |-> Append(hc.results,
                                       <<n, health_check(n, health[n])>>)]
    /\ UNCHANGED <<cfg, providers, router_default, router_pc, health,
                   resolved>>

\* The caller of health_check_all takes the results
HealthCheckReturn ==
    /\ hc.pc = "done"
    /\ hc' = IdleCheck
    /\ UNCHANGED <<cfg, providers, router_default, router_pc, health,
                   resolved>>

NextRouter ==
    \/ Setup /\ UNCHANGED <<pvars, wvars, xvars>>
    \/ \E name \in RequestNames : Resolve(name) /\ UNCHANGED <<pvars, wvars, xvars>>
    \/ CallAdapter /\ UNCHANGED <<pvars, wvars, xvars>>
    \/ HealthCheckStart /\ UNCHANGED <<pvars, wvars, xvars>>
    \/ ProbeReturns /\ UNCHANGED <<pvars, wvars, xvars>>
    \/ HealthCheckReturn /\ UNCHANGED <<pvars, wvars, xvars>>

----------------------------------------------------------------------------
(* StreamingChatSession (packages/core/src/ai/ollama/streaming.py).        *)
(* Text is a sequence of characters.                                       *)

MaxSends == 3
MaxTokens == 2

\* The fragments the Ollama client may yield
Tokens == {<< >>, <<"a">>, <<"b">>}

\* ChatMessage(role=..., content=...)
ChatMsg(role, content) == [role |-> role, content |-> content]

IdleSession ==
    [pc |-> "idle", full_response |-> << >>, tokens |-> 0, sent |-> 0,
     base |-> 0, terminal |-> None]

\* StreamingChatSession.__init__
InitSession ==
    /\ conversation_history = << >>
    /\ session = IdleSession

\* send_message up to the first suspension of its `async for`: the message
\* is appended, full_response = "" and stream_chat_response has yielded
\* stream_start.  base notes the length of the history before the call.
SessionSend(role) ==
    /\ session.pc = "idle"
    /\ session.sent < MaxSends
    /\ conversation_history' =
          Append(conversation_history, ChatMsg(role, <<"q">>))
    /\ session' = [pc |-> "streaming", full_response |-> << >>, tokens |-> 0,
                   sent |-> session.sent + 1,
                   base |-> Len(conversation_history), terminal |-> None]

\* stream_chat_response yields a token event: full_response += content
SessionToken(tok) ==
    /\ session.pc = "streaming"
    /\ session.tokens < MaxTokens
    /\ session' = [session EXCEPT !.full_response = @ \o tok,
                                  !.tokens = @ + 1]
    /\ UNCHANGED conversation_history

\* if full_response
ResponseKept(full_response) == full_response # << >>

\* stream_chat_response yields its terminal event (stream_complete, or
\* stream_error from its except clause) and ends; send_message appends the
\* assistant message if there is a response, and returns.
SessionEnd(terminal) ==
    /\ session.pc = "streaming"
    /\ conversation_history' =
          IF ResponseKept(session.full_response)
          THEN Append(conversation_history,
                      ChatMsg("assistant", session.full_response))
          ELSE conversation_history
    /\ session' = [session EXCEPT !.pc = "idle", !.terminal = terminal]

NextSession ==
    \/ \E role \in {"user", "system"} :
          SessionSend(role) /\ UNCHANGED <<pvars, wvars, rvars, mvars, ovars>>
    \/ \E tok \in Tokens :
          SessionToken(tok) /\ UNCHANGED <<pvars, wvars, rvars, mvars, ovars>>
    \/ \E terminal \in {"stream_complete", "stream_error"} :
          SessionEnd(terminal) /\ UNCHANGED <<pvars, wvars, rvars, mvars, ovars>>

----------------------------------------------------------------------------
(* websocket_health_monitor and StatusWebSocketManager                     *)
(* (apps/api/src/routes/websocket.py).                                     *)

MaxIters == 2

\* The clients of /ws/status and the providers of the router
Listeners == {1, 2}
MonitoredProviders == {"openai"}

\* What a provider's health_check does when health_check_all awaits it
ProbeOutcomes == {"True", "False", "raises"}

\* AIRouter.health_check_all: the value returned by the probe, False for a
\* probe that raised; one entry per provider
health_check_all(outcomes) ==
    [n \in DOMAIN outcomes |-> outcomes[n] = "True"]

NoSnapshot == [n \in MonitoredProviders |-> FALSE]

\* The monitor task has been created and has not run yet
InitMonitor ==
    /\ status_connections = << >>
    /\ monitor = [pc |-> "start", iter |-> 1, snapshot |-> NoSnapshot,
                  pos |-> 0, size |-> 0, keys |-> << >>, target |-> 0,
                  disconnected |-> {}, failedAt |-> 0]
    /\ published = {}

Range(q) == {q[i] : i \in DOMAIN q}

Without(q, set) == SelectSeq(q, LAMBDA x : x \notin set)

\* A listener opens /ws/status: StatusWebSocketManager.connect stores it
StatusConnect(cl) ==
    /\ cl \notin Range(status_connections)
    /\ status_connections' = Append(status_connections, cl)
    /\ UNCHANGED <<monitor, published>>

\* A listener goes away: the finally clause of websocket_status calls
\* StatusWebSocketManager.disconnect
StatusDisconnect(cl) ==
    /\ cl \in Range(status_connections)
    /\ status_connections' = Without(status_connections, {cl})
    /\ UNCHANGED <<monitor, published>>

\* `except Exception` of websocket_health_monitor: log, sleep(60), go on
IterationFails_Mut(m) == [m EXCEPT !.pc = "dead", !.failedAt =
                              IF @ = 0 THEN m.iter ELSE @]
IterationFails(m) == [m EXCEPT !.pc = "sleep", !.failedAt =
                          IF @ = 0 THEN m.iter ELSE @]

\* The `for` statement of broadcast_status asks the dictionary iterator for
\* the next listener.  The iterator raises RuntimeError when the dictionary
\* has changed size since the loop began; when its keys were replaced at
\* the same size it raises or goes on with some listener (next is then any
\* of them, or 0 to raise).  After the last listener the ids whose write
\* failed are removed and the monitor sleeps.
BroadcastNext(m, next) ==
    LET conns == status_connections IN
    IF Len(conns) # m.size
    THEN /\ monitor' = IterationFails(m)
         /\ UNCHANGED status_connections
    ELSE IF m.pos >= m.size
    THEN /\ monitor' = [m EXCEPT !.pc = "sleep"]
         /\ status_connections' = Without(conns, m.disconnected)
    ELSE IF conns = m.keys
    THEN /\ next = conns[m.pos + 1]
         /\ monitor' = [m EXCEPT !.pc = "sending", !.pos = @ + 1,
                                 !.target = next]
         /\ UNCHANGED status_connections
    ELSE IF next = 0
    THEN /\ monitor' = IterationFails(m)
         /\ UNCHANGED status_connections
    ELSE /\ next \in Range(conns)
         /\ monitor' = [m EXCEPT !.pc = "sending", !.pos = @ + 1,
                                 !.target = next]
         /\ UNCHANGED status_connections

\* The task runs for the first time, up to `await health_check_all()`
MonitorCheck ==
    /\ monitor.pc = "start"
    /\ monitor' = [monitor EXCEPT !.pc = "checking"]
    /\ UNCHANGED <<status_connections, published>>

\* health_check_all returns; broadcast_status begins to iterate
MonitorChecked(outcomes, next) ==
    /\ monitor.pc = "checking"
    /\ BroadcastNext([monitor EXCEPT !.snapshot = health_check_all(outcomes),
                                     !.pos = 0,
                                     !.size = Len(status_connections),
                                     !.keys = status_connections,
                                     !.target = 0,
                                     !.disconnected = {}], next)
    /\ UNCHANGED published

\* websocket.send_text returns (ok) or raises; the loop goes on
MonitorSent(ok, next) ==
    /\ monitor.pc = "sending"
    /\ published' = IF ok
                    THEN published \cup {[iter |-> monitor.iter,
                                          client |-> monitor.target,
                                          snapshot |-> monitor.snapshot]}
                    ELSE published
    /\ BroadcastNext(IF ok THEN monitor
                     ELSE [monitor EXCEPT !.disconnected =
                                              @ \cup {monitor.target}], next)

\* asyncio.sleep(60) returns: the next iteration calls health_check_all
MonitorWake ==
    /\ monitor.pc = "sleep"
    /\ monitor.iter < MaxIters
    /\ monitor' = [monitor EXCEPT !.pc = "checking", !.iter = @ + 1]
    /\ UNCHANGED <<status_connections, published>>

NextMonitor ==
    \/ MonitorCheck /\ UNCHANGED <<pvars, wvars, rvars, svars, ovars>>
    \/ \E outcomes \in [MonitoredProviders -> ProbeOutcomes],
          next \in {0} \cup Listeners :
          MonitorChecked(outcomes, next) /\ UNCHANGED <<pvars, wvars, rvars, svars, ovars>>
    \/ \E ok \in BOOLEAN, next \in {0} \cup Listeners :
          MonitorSent(ok, next) /\ UNCHANGED <<pvars, wvars, rvars, svars, ovars>>
    \/ MonitorWake /\ UNCHANGED <<pvars, wvars, rvars, svars, ovars>>
    \/ \E cl \in Listeners :
          StatusConnect(cl) /\ UNCHANGED <<pvars, wvars, rvars, svars, ovars>>
    \/ \E cl \in Listeners :
          StatusDisconnect(cl) /\ UNCHANGED <<pvars, wvars, rvars, svars, ovars>>

\* The event loop runs the monitor whenever what it awaits has returned
FairMonitor ==
    /\ WF_vars(MonitorCheck /\ UNCHANGED <<pvars, wvars, rvars, svars, ovars>>)
    /\ WF_vars((\E outcomes \in [MonitoredProviders -> ProbeOutcomes],
                   next \in {0} \cup Listeners :
                   MonitorChecked(outcomes, next))
               /\ UNCHANGED <<pvars, wvars, rvars, svars, ovars>>)
    /\ WF_vars((\E ok \in BOOLEAN, next \in {0} \cup Listeners :
                   MonitorSent(ok, next))
               /\ UNCHANGED <<pvars, wvars, rvars, svars, ovars>>)
    /\ WF_vars(MonitorWake /\ UNCHANGED <<pvars, wvars, rvars, svars, ovars>>)

----------------------------------------------------------------------------
(* OllamaStreamingManager (packages/core/src/ai/ollama/streaming.py).      *)
(* stream_chat_response is an async generator: it runs when its consumer   *)
(* asks for the next event and is suspended at each yield.  The caller     *)
(* chooses the stream id.                                                  *)

MaxGens == 2
MaxStreamTokens == 2

Gens == 1..MaxGens
StreamIds == {"s1", "s2"}

NoEntry ==
    [present |-> FALSE, status |-> None, messages_sent |-> 0, total_tokens |-> 0]

\* self.active_streams[stream_id] = {"status": "active", ...}
NewEntry ==
    [present |-> TRUE, status |-> "active", messages_sent |-> 0,
     total_tokens |-> 0]

\* A generator not started yet.  events is the history of what it yielded;
\* stopped and stopAt note a stop_stream that returned True for its id and
\* the tokens it had yielded by then; abandoned notes that it was closed by
\* its consumer rather than run to its end.
NewGen ==
    [pc |-> "new", stream_id |-> None, token_count |-> 0, events |-> << >>,
     stopped |-> FALSE, stopAt |-> 0, abandoned |-> FALSE]

\* OllamaStreamingManager.__init__
InitManager ==
    /\ manager_streams = [id \in StreamIds |-> NoEntry]
    /\ gen = [g \in Gens |-> NewGen]

StreamEvent(type, id, n) == [type |-> type, stream_id |-> id, n |-> n]

\* The generator yields ev and is suspended there
Yield(g, ev, pc) == [gen[g] EXCEPT !.pc = pc, !.events = Append(@, ev)]

\* First step of the generator: the entry is stored and stream_start yielded.
StreamStart(g, id) ==
    /\ gen[g].pc = "new"
    /\ manager_streams' = [manager_streams EXCEPT ![id] = NewEntry]
    /\ gen' = [gen EXCEPT ![g] =
                 [Yield(g, StreamEvent("stream_start", id, 0), "yielded")
                    EXCEPT !.stream_id = id]]

\* self.active_streams[stream_id][...]: KeyError when the entry is gone
EntryMissing(id) == ~manager_streams[id].present

\* The client yields a token: the counters are updated and the token event
\* yielded; a missing entry raises KeyError inside the try block, which the
\* except clause turns into stream_error.
StreamToken(g) ==
    /\ gen[g].pc = "yielded"
    /\ gen[g].token_count < MaxStreamTokens
    /\ LET id == gen[g].stream_id
           token_count == gen[g].token_count + 1
       IN IF EntryMissing(id)
          THEN /\ gen' = [gen EXCEPT ![g] =
                    [Yield(g, StreamEvent("stream_error", id, 0),
                           "yielded_terminal")
                       EXCEPT !.token_count = token_count]]
               /\ UNCHANGED manager_streams
          ELSE /\ manager_streams' = [manager_streams EXCEPT
                    ![id].messages_sent = token_count,
                    ![id].total_tokens = token_count]
               /\ gen' = [gen EXCEPT ![g] =
                    [Yield(g, StreamEvent("token", id, token_count), "yielded")
                       EXCEPT !.token_count = token_count]]

\* The client's stream ends: stream_complete is yielded; its duration reads
\* the entry's started_at.
StreamExhausted(g) ==
    /\ gen[g].pc = "yielded"
    /\ LET id == gen[g].stream_id
       IN gen' = [gen EXCEPT ![g] =
             IF EntryMissing(id)
             THEN Yield(g, StreamEvent("stream_error", id, 0), "yielded_terminal")
             ELSE Yield(g, StreamEvent("stream_complete", id, gen[g].token_count),
                        "yielded_terminal")]
    /\ UNCHANGED manager_streams

\* The client raises: except Exception yields stream_error.
StreamRaises(g) ==
    /\ gen[g].pc = "yielded"
    /\ gen' = [gen EXCEPT ![g] =
          Yield(g, StreamEvent("stream_error", gen[g].stream_id, 0),
                "yielded_terminal")]
    /\ UNCHANGED manager_streams

\* finally: if stream_id in self.active_streams: del ...
Cleanup(id) == [manager_streams EXCEPT ![id] = NoEntry]

\* The consumer asks for the event after the terminal one: the generator
\* runs its finally clause and ends.
StreamClose(g) ==
    /\ gen[g].pc = "yielded_terminal"
    /\ manager_streams' = Cleanup(gen[g].stream_id)
    /\ gen' = [gen EXCEPT ![g].pc = "closed"]

\* The consumer stops iterating (its send failed or its task was
\* cancelled): the generator is closed at the yield where it is suspended;
\* GeneratorExit is no Exception, so only the finally clause runs.
StreamAbandon(g) ==
    /\ gen[g].pc = "yielded"
    /\ manager_streams' = Cleanup(gen[g].stream_id)
    /\ gen' = [gen EXCEPT ![g].pc = "closed", ![g].abandoned = TRUE]

\* stop_stream(stream_id): marks the entry and returns True if there is one,
\* returns False otherwise.
stop_stream(id) ==
    /\ manager_streams[id].present
    /\ manager_streams' = [manager_streams EXCEPT ![id].status = "stopped"]
    /\ gen' = [g \in Gens |->
                 IF gen[g].stream_id = id /\ gen[g].pc = "yielded"
                       /\ ~gen[g].stopped
                 THEN [gen[g] EXCEPT !.stopped = TRUE,
                                     !.stopAt = gen[g].token_count]
                 ELSE gen[g]]

NextManager ==
    \/ \E g \in Gens, id \in StreamIds :
          StreamStart(g, id) /\ UNCHANGED <<pvars, wvars, rvars, svars, mvars>>
    \/ \E g \in Gens :
          StreamToken(g) /\ UNCHANGED <<pvars, wvars, rvars, svars, mvars>>
    \/ \E g \in Gens :
          StreamExhausted(g) /\ UNCHANGED <<pvars, wvars, rvars, svars, mvars>>
    \/ \E g \in Gens :
          StreamRaises(g) /\ UNCHANGED <<pvars, wvars, rvars, svars, mvars>>
    \/ \E g \in Gens :
          StreamClose(g) /\ UNCHANGED <<pvars, wvars, rvars, svars, mvars>>
    \/ \E g \in Gens :
          StreamAbandon(g) /\ UNCHANGED <<pvars, wvars, rvars, svars, mvars>>
    \/ \E id \in StreamIds :
          stop_stream(id) /\ UNCHANGED <<pvars, wvars, rvars, svars, mvars>>

----------------------------------------------------------------------------
(* Specifications *)

\* A provider taking calls; no websocket traffic
InitCalls ==
    InitProvider /\ InitWS /\ msgBudget = MaxMsgs /\ InitRouterIdle /\ InitSession
        /\ InitMonitor /\ InitManager

\* A provider with max_retries = MaxAttempts taking calls; no websocket
\* traffic
InitCancel ==
    /\ InitProvider
    /\ max_retries = MaxAttempts
    /\ InitWS
    /\ msgBudget = MaxMsgs
    /\ InitRouterIdle
    /\ InitSession
    /\ InitMonitor /\ InitManager

\* Websocket sessions whose clients send MaxMsgs messages in all
InitSessions ==
    InitProviderIdle /\ InitWS /\ msgBudget = MaxMsgs /\ InitRouterIdle /\ InitSession
        /\ InitMonitor /\ InitManager

\* Websocket sessions whose clients send MaxChats chat requests in all
InitChats ==
    InitProviderIdle /\ InitWS /\ msgBudget = MaxChats /\ InitRouterIdle /\ InitSession
        /\ InitMonitor /\ InitManager

\* Websocket sessions whose clients send MaxMsgs messages of any kind
InitControl ==
    InitProviderIdle /\ InitWS /\ msgBudget = MaxMsgs /\ InitRouterIdle /\ InitSession
        /\ InitMonitor /\ InitManager

\* A chat session sending MaxSends messages; nothing else runs
InitTranscript ==
    /\ InitProviderIdle
    /\ InitWS
    /\ msgBudget = MaxMsgs
    /\ InitRouterIdle
    /\ InitSession
    /\ InitMonitor /\ InitManager

\* The health monitor and the status listeners; nothing else runs
InitMonitoring ==
    /\ InitProviderIdle
    /\ InitWS
    /\ msgBudget = MaxMsgs
    /\ InitRouterIdle
    /\ InitSession
    /\ InitMonitor /\ InitManager

\* A streaming manager whose callers start MaxGens streams; nothing else runs
InitStreams ==
    /\ InitProviderIdle
    /\ InitWS
    /\ msgBudget = MaxMsgs
    /\ InitRouterIdle
    /\ InitSession
    /\ InitMonitor /\ InitManager

\* A router being set up and used; no provider call, no websocket traffic
InitRouting ==
    InitProviderIdle /\ InitWS /\ msgBudget = MaxMsgs /\ InitRouter /\ InitSession
        /\ InitMonitor /\ InitManager

SpecLimiter == InitCalls /\ [][NextLimiter]_vars

SpecRetry == InitCalls /\ [][NextRetry]_vars

SpecEstimate == InitCalls /\ [][NextEstimate]_vars

SpecCancel == InitCancel /\ [][NextCancel]_vars /\ FairCancel

SpecAdmission == InitCancel /\ [][NextAdmission]_vars /\ FairAdmission

SpecProbe == InitCalls /\ [][NextProbe]_vars

SpecRouter == InitRouting /\ [][NextRouter]_vars

SpecWS == InitSessions /\ [][NextWS]_vars

SpecOverlap == InitChats /\ [][NextOverlap]_vars

SpecControl == InitControl /\ [][NextControl]_vars

SpecSession == InitTranscript /\ [][NextSession]_vars

SpecMonitor == InitMonitoring /\ [][NextMonitor]_vars /\ FairMonitor

SpecManager == InitStreams /\ [][NextManager]_vars

----------------------------------------------------------------------------
(* Claims about the RateLimiter and the retry loop *)

\* Admitted requests whose admission time lies within the trailing 60 s
RecentAdmissions ==
    {i \in DOMAIN admitted : clock - admitted[i] <= WindowSeconds}

\* C1: with any number of concurrent callers of acquire_request and any
\* interleaving at its sleep points, at every instant at most
\* requests_per_minute admitted requests lie within the trailing 60 seconds.
C1_RequestWindowWithinLimit ==
    Cardinality(RecentAdmissions) <= requests_per_minute

\* C1 witness: the window is full, more requests than the limit have been
\* admitted over time, and a caller is asleep waiting for a slot.
C1_Witness ==
    /\ Len(admitted) > requests_per_minute
    /\ Cardinality(RecentAdmissions) = requests_per_minute
    /\ \E p \in Callers : call[p].pc = "sleep_request"

\* C4: a call that fails with RateLimitError on its first N invocations and
\* then succeeds returns the result after exactly N+1 invocations when
\* max_retries = N+1, and raises the last (N-th) RateLimitError after exactly
\* N invocations when max_retries = N >= 1.
C4_RateLimitedRetryCounts ==
    \A p \in Callers :
        LET c == call[p] IN
        (c.pc = "done" /\ (c.kind = "RateLimitError" \/ c.fails = 0)) =>
            /\ (max_retries = c.fails + 1 =>
                    c.result = "ok" /\ c.invocations = c.fails + 1)
            /\ (max_retries = c.fails /\ c.fails >= 1 =>
                    /\ c.result = "raised"
                    /\ c.raisedAt = c.fails
                    /\ c.invocations = c.fails)

\* C4 witness: two RateLimitError failures, max_retries = 3, third
\* invocation succeeded.
C4_Witness ==
    \E p \in Callers :
        /\ call[p].pc = "done"
        /\ call[p].kind = "RateLimitError"
        /\ call[p].fails = 2
        /\ max_retries = 3
        /\ call[p].result = "ok"
        /\ call[p].invocations = 3

\* C5: a call failing with an API error of non-5xx status (model not found)
\* is invoked exactly once, whatever max_retries is, and that error is
\* raised to the caller.
C5_InvalidModelInvokedOnce ==
    \A p \in Callers :
        LET c == call[p] IN
        (c.pc = "done" /\ c.kind = "APIError" /\ c.status = <<404>>) =>
            c.invocations = 1 /\ c.result = "raised" /\ c.raisedAt = 1

\* C6: every attempt, retries included, is preceded by its own admission: a
\* call that has made k attempts has recorded k request entries and k token
\* entries.
C6_AdmissionPerAttempt ==
    \A p \in Callers :
        LET c == call[p] IN
        (c.pc \in {"request", "done"} /\ c.invocations >= 1) =>
            c.reqAdmits = c.invocations /\ c.tokAdmits = c.invocations

\* C26: a failure of request_func that is neither RateLimitError nor a vendor
\* APIError is fatal: request_func is invoked exactly once, no backoff sleep
\* is taken, and that same exception is raised to the caller.
C26_OtherFailureIsFatal ==
    \A p \in Callers :
        LET c == call[p] IN
        (c.kind = "Exception" /\ c.invocations >= 1) =>
            /\ c.invocations = 1
            /\ c.slept = << >>
            /\ c.pc # "backoff"
            /\ (c.pc = "done" => c.result = "raised" /\ c.raisedAt = 1)

\* C26 witness: max_retries = 3 and a request_func that would fail twice or
\* more; the call ended after one invocation with that exception.
C26_Witness ==
    \E p \in Callers :
        /\ call[p].pc = "done"
        /\ call[p].kind = "Exception"
        /\ call[p].fails >= 2
        /\ max_retries = 3
        /\ call[p].invocations = 1
        /\ call[p].result = "raised"
        /\ call[p].raisedAt = 1

\* A failure after which the loop may sleep and try again: RateLimitError, or
\* an APIError whose status is 5xx
Retryable(c) ==
    \/ c.kind = "RateLimitError"
    \/ c.kind = "APIError" /\ c.status # << >> /\ c.status[1] >= 500

Min(a, b) == IF a <= b THEN a ELSE b

\* C32: after the k-th failed retryable attempt (k = 0, 1, ...) the loop
\* sleeps retry_delay * 2^k before the next attempt, and no sleep follows the
\* final attempt: a call whose first n invocations failed has slept
\* retry_delay * 2^0, ..., one sleep per failure except after attempt
\* max_retries - 1, and wakes from each sleep into a further attempt.
C32_BackoffDoubles ==
    /\ [](\A p \in Callers :
            LET c == call[p] IN
            Retryable(c) =>
                /\ Len(c.slept) = Min(c.lastErrorAt, Max(max_retries - 1, 0))
                /\ \A i \in DOMAIN c.slept :
                      (i = 1 => c.slept[i] = RetryDelay)
                        /\ (i > 1 => c.slept[i] = 2 * c.slept[i - 1])
                /\ (c.pc = "backoff" => c.attempt < max_retries))
    /\ [][\A p \in Callers :
            /\ (call[p].pc # "backoff" /\ call'[p].pc = "backoff") =>
                  call'[p].wakeAt = clock + call'[p].slept[Len(call'[p].slept)]
            /\ (call[p].pc = "backoff" /\ call'[p].pc # "backoff") =>
                  /\ clock >= call[p].wakeAt
                  /\ call'[p].pc = "attempt"]_vars

\* C32 witness: max_retries = 4 and every attempt failed with a retryable
\* error: the call slept 1, 2 and 4 times retry_delay, and not after the
\* fourth attempt.
C32_Witness ==
    \E p \in Callers :
        /\ call[p].pc = "done"
        /\ Retryable(call[p])
        /\ max_retries = 4
        /\ call[p].invocations = 4
        /\ call[p].result = "raised"
        /\ call[p].slept = <<RetryDelay, 2 * RetryDelay, 4 * RetryDelay>>

\* C11: while a call is still waiting for token-budget headroom, no request
\* entry of that call has been recorded in the request window: request and
\* token usage are recorded together, after the last wait.
C11_NoRequestEntryWhileWaitingForTokens ==
    \A p \in Callers :
        call[p].pc = "sleep_tokens" => call[p].reqAdmits = 0

\* Admitted token estimates whose admission time lies within the trailing 60 s
RecentTokenAdmissions ==
    {i \in DOMAIN tokenAdmitted : clock - tokenAdmitted[i][1] <= WindowSeconds}

RECURSIVE SumAdmitted(_)
SumAdmitted(S) ==
    IF S = {} THEN 0
    ELSE LET i == CHOOSE x \in S : TRUE
         IN tokenAdmitted[i][2] + SumAdmitted(S \ {i})

\* C12: with any interleaving of concurrent acquire_tokens calls, at every
\* instant the token estimates admitted within the trailing 60 seconds, not
\* counting the most recently admitted call, sum to at most
\* tokens_per_minute.
C12_TokenWindowWithinLimit ==
    SumAdmitted(RecentTokenAdmissions \ {Len(tokenAdmitted)})
        <= tokens_per_minute

\* C12 witness: an estimate larger than the whole budget was admitted into an
\* empty window after earlier admissions had aged out, the window now exceeds
\* the budget by that one call, and another caller sleeps waiting for tokens.
C12_Witness ==
    /\ Len(tokenAdmitted) >= 2
    /\ SumAdmitted(RecentTokenAdmissions) > tokens_per_minute
    /\ \E p \in Callers : call[p].pc = "sleep_tokens"

\* C13: cancelling the stream task of a call at any of its suspension points
\* removes no entry from the request or token window and leaves every other
\* call's frame as it is; every other caller that has entered a call,
\* waiting on the window or retrying, completes it.
C13_CancelLeavesWindowAndOthers ==
    /\ [][\A p \in Callers :
            (call[p].result # "cancelled" /\ call'[p].result = "cancelled") =>
                /\ request_bucket' = request_bucket
                /\ token_bucket' = token_bucket
                /\ \A q \in Callers \ {p} : call'[q] = call[q]]_vars
    /\ \A q \in Callers \ {1} :
          (call[q].pc # "idle") ~>
              (call[q].pc = "done" /\ call[q].result # "cancelled")

\* C13 witness: caller 1 was cancelled after its usage had been recorded,
\* the entries are still in the window, and another caller is asleep
\* waiting for the window or for its retry.
C13_Witness ==
    /\ call[1].pc = "done"
    /\ call[1].result = "cancelled"
    /\ call[1].reqAdmits >= 1
    /\ request_bucket # << >>
    /\ \E q \in Callers \ {1} :
          call[q].pc \in {"sleep_request", "sleep_tokens", "backoff"}

\* C31: every acquire_request call eventually returns, provided time advances
\* and finitely many competing calls are admitted: a caller that finds the
\* window full sleeps until the oldest entry is 60 s old, re-checks, and is
\* admitted when fewer than requests_per_minute admissions lie within the
\* trailing 60 s at that moment.
C31_AcquireRequestReturns ==
    /\ [][\A p \in Callers :
            /\ (call[p].pc # "sleep_request" /\ call'[p].pc = "sleep_request") =>
                  /\ Cardinality(RecentAdmissions) >= requests_per_minute
                  /\ \E i \in RecentAdmissions :
                        /\ \A j \in RecentAdmissions : admitted[i] <= admitted[j]
                        /\ call'[p].wakeAt = admitted[i] + WindowSeconds
            /\ (call[p].pc = "sleep_request" /\ call'[p] # call[p]
                    /\ Cardinality(RecentAdmissions) < requests_per_minute) =>
                  call'[p].reqAdmits = 1]_vars
    /\ \A p \in Callers :
          (call[p].pc \in {"acquire_request", "sleep_request"}) ~>
              (call[p].reqAdmits = 1)

\* C31 witness: a caller that slept for a slot, lost it to another waiter
\* and slept again has been admitted, after more admissions than the limit.
C31_Witness ==
    \E p \in Callers :
        /\ call[p].reqAdmits = 1
        /\ call[p].waits >= 2
        /\ Len(admitted) > requests_per_minute

\* C38: acquire_tokens with an estimate larger than tokens_per_minute is
\* never rejected and, with finitely many competing calls, never waits
\* forever: it goes to sleep only while estimates admitted within the
\* trailing 60 s are in the window, is admitted at the first check that finds
\* none, and the admitted estimates of the trailing 60 s sum to more than
\* the limit only when they are a single entry.
C38_OversizedEstimateAdmittedWhenEmpty ==
    /\ [](SumAdmitted(RecentTokenAdmissions) > tokens_per_minute =>
              Cardinality(RecentTokenAdmissions) = 1)
    /\ [][\A p \in Callers :
            call[p].est > tokens_per_minute =>
                /\ (call[p].pc # "sleep_tokens" /\ call'[p].pc = "sleep_tokens") =>
                       RecentTokenAdmissions # {}
                /\ (/\ call[p].pc \in {"acquire_tokens", "sleep_tokens"}
                     /\ call'[p] # call[p]
                     /\ RecentTokenAdmissions = {}) =>
                       /\ call'[p].tokAdmits = 1
                       /\ tokenAdmitted' =
                             Append(tokenAdmitted, <<clock, call[p].est>>)]_vars
    /\ \A p \in Callers :
          (call[p].est > tokens_per_minute
              /\ call[p].pc \in {"acquire_tokens", "sleep_tokens"}) ~>
                 (call[p].tokAdmits = 1)

\* C38 witness: an estimate above the limit slept while the window was not
\* empty and was then admitted; it is the only entry of the trailing 60 s
\* and exceeds the limit.
C38_Witness ==
    \E p \in Callers :
        /\ call[p].est > tokens_per_minute
        /\ call[p].tokWaits >= 1
        /\ call[p].tokAdmits = 1
        /\ Cardinality(RecentTokenAdmissions) = 1
        /\ SumAdmitted(RecentTokenAdmissions) = call[p].est
        /\ Len(tokenAdmitted) >= 2

\* The estimate of a call without prompt and without max_tokens
ProbeEstimate == 1 + DefaultResponseTokens

\* C39: every health_check and list_models call of the cloud adapter passes
\* through the admission and retry path of a chat call: its estimate is 151,
\* it sleeps when the request window holds requests_per_minute entries of
\* the trailing 60 s (or the token window has no room and is not empty),
\* otherwise it records the entry in the shared window, and when its request
\* is made it has recorded one request entry and one token entry.
C39_ProbesAreAdmittedLikeChats ==
    /\ [](\A p \in Callers :
             LET c == call[p] IN
             c.op \in Probes =>
                 /\ c.est = ProbeEstimate
                 /\ c.pc \in {"acquire_request", "sleep_request"} =>
                        c.reqAdmits = 0 /\ c.tokAdmits = 0 /\ c.invocations = 0
                 /\ c.pc \in {"acquire_tokens", "sleep_tokens"} =>
                        c.reqAdmits = 1 /\ c.tokAdmits = 0 /\ c.invocations = 0
                 /\ c.pc \in {"attempt", "request", "backoff", "done"} =>
                        c.reqAdmits = 1 /\ c.tokAdmits = 1
                 /\ (c.pc = "done" /\ c.kind = "RateLimitError"
                        /\ c.fails >= max_retries) =>
                        c.invocations = max_retries
                            /\ ProbeReturn(c.op, c.result) \in {"False", "[]"})
    /\ [][\A p \in Callers :
            (call[p].op \in Probes /\ call'[p] # call[p]) =>
                /\ call[p].pc \in {"acquire_request", "sleep_request"} =>
                      IF Cardinality(RecentAdmissions) >= requests_per_minute
                      THEN call'[p].pc = "sleep_request" /\ admitted' = admitted
                      ELSE /\ admitted' = Append(admitted, clock)
                           /\ request_bucket' # << >>
                           /\ request_bucket'[Len(request_bucket')] = clock
                /\ call[p].pc \in {"acquire_tokens", "sleep_tokens"} =>
                      IF /\ RecentTokenAdmissions # {}
                         /\ SumAdmitted(RecentTokenAdmissions) + ProbeEstimate
                               > tokens_per_minute
                      THEN /\ call'[p].pc = "sleep_tokens"
                           /\ tokenAdmitted' = tokenAdmitted
                      ELSE /\ tokenAdmitted' =
                                Append(tokenAdmitted, <<clock, ProbeEstimate>>)
                           /\ token_bucket' # << >>
                           /\ token_bucket'[Len(token_bucket')] =
                                 <<clock, ProbeEstimate>>]_vars

\* C39 witness: a health check found the request window full, slept, was
\* admitted with one request entry and one token entry of 151, had its
\* request retried max_retries >= 2 times and reports False.
C39_Witness ==
    \E p \in Callers :
        /\ call[p].op = "health_check"
        /\ call[p].pc = "done"
        /\ call[p].waits >= 1
        /\ call[p].reqAdmits = 1
        /\ call[p].tokAdmits = 1
        /\ call[p].est = 151
        /\ max_retries >= 2
        /\ call[p].invocations = max_retries
        /\ ProbeReturn(call[p].op, call[p].result) = "False"

\* ceil(len / 4)
CeilQuarter(len) == (len + CharsPerToken - 1) \div CharsPerToken

\* max output tokens of a call: kwargs["max_tokens"], 150 when absent
RequestedTokens(c) ==
    IF c.max_tokens = << >> THEN DefaultResponseTokens ELSE c.max_tokens[1]

\* C20: for every prompt length L (0 and non-multiples of 4 included) and
\* requested max output tokens T the estimate passed to admission is
\* ceil(L/4) + T.
C20_EstimateIsCeilQuarterPlusOutput ==
    \A p \in Callers :
        call[p].pc # "idle" =>
            call[p].est = CeilQuarter(call[p].len) + RequestedTokens(call[p])

----------------------------------------------------------------------------
(* Claims about AIWebSocketManager and websocket_ai_endpoint *)

\* Stream tasks of connection c that have started and are neither finished
\* nor asked to cancel
RunningStreams(c) ==
    {t \in TaskIds : /\ task[t].conn = c
                     /\ task[t].state = "running"
                     /\ ~task[t].cancelReq}

\* C2: for every connection id at most one chat stream task is running at
\* any time, also when three or more chat requests overlap.
C2_AtMostOneRunningStream ==
    \A c \in ConnIds : Cardinality(RunningStreams(c)) <= 1

\* Positions in the transport log of connection c holding an event of
\* stream t whose type is in types
EventsOf(c, t, types) ==
    {i \in DOMAIN delivered[c] :
        delivered[c][i].stream = t /\ delivered[c][i].type \in types}

\* Tasks for which a stop_generation was handled while they were registered
\* and whose awaiter has run its except and finally clauses
StoppedAndReaped ==
    {t \in TaskIds : task[t].stopAt # 0 /\ task[t].reaped}

\* No token and no completion of stream t is delivered from the handling of
\* stop_generation on
SilentAfterStop(t) ==
    \A i \in EventsOf(task[t].conn, t, {"stream_content", "stream_complete"}) :
        i < task[t].stopAt

C7_StopHandledDuringStream ==
    \A w \in Sockets :
        \A i \in DOMAIN inbox[w] :
            inbox[w][i].during # 0 =>
                EventsOf(task[inbox[w][i].during].conn, inbox[w][i].during,
                         {"stream_complete"}) = {}

\* The event that ends a stream
IsTerminal(e) ==
    \/ e.type \in {"stream_complete", "stream_cancelled"}
    \/ e.type = "error" /\ e.stream # 0

\* C8: per connection the events of a stream are delivered in the order
\* stream_start, stream_content in production order, then one terminal
\* event, and between a stream's stream_start and its terminal event no
\* event of another stream is delivered, also when a new chat_request
\* supersedes a running stream.
C8_StreamEventsNotInterleaved ==
    \A c \in ConnIds :
        LET log == delivered[c] IN
        \A i \in DOMAIN log : \A j \in DOMAIN log :
            (i < j /\ log[i].stream # 0) =>
                /\ (log[j].stream = log[i].stream =>
                      /\ log[j].type # "stream_start"
                      /\ ~IsTerminal(log[i])
                      /\ (log[i].type = "stream_content" /\
                          log[j].type = "stream_content" =>
                             log[i].k < log[j].k))
                /\ (log[i].type = "stream_start" /\
                    log[j].stream \notin {0, log[i].stream} =>
                      \E n \in (i + 1)..(j - 1) :
                          log[n].stream = log[i].stream /\ IsTerminal(log[n]))

\* Websockets whose endpoint is inside its receive loop and whose client has
\* not closed them
ServedSockets ==
    {w \in Sockets :
        ep[w].pc \in {"receive", "await_load", "await_task"} /\ wsOpen[w]}

\* C9: a websocket that is being served keeps its own session: connecting
\* another websocket with the same connection id, or disconnecting another
\* websocket, neither replaces nor removes its transport and metadata.
C9_SessionsIndependent ==
    \A w \in ServedSockets :
        /\ active_connections[ep[w].conn] = w
        /\ connection_metadata[ep[w].conn].present

\* C10: a chat_request naming a model absent from the provider's catalog is
\* answered first with model_loading; stream_start follows only after
\* load_model succeeded, otherwise the single next message is an error and no
\* stream is started.
C10_AbsentModelLoadsFirst ==
    \A r \in DOMAIN reqLog :
        LET q == reqLog[r] IN
        /\ q.emitted[1] = "model_loading"
        /\ \A i \in DOMAIN q.emitted : q.emitted[i] = "stream_start" => q.loaded
        /\ ~q.loaded => q.emitted \in {<<"model_loading">>,
                                       <<"model_loading", "error">>}
        /\ (q.done /\ ~q.loaded) => q.emitted = <<"model_loading", "error">>

\* C10 witness: a request for an absent model has been answered with
\* model_loading and, after load_model returned, with an error; both were
\* delivered in that order and no task was created for the connection.
C10_Witness ==
    \E r \in DOMAIN reqLog :
        /\ reqLog[r].done
        /\ reqLog[r].emitted = <<"model_loading", "error">>
        /\ \E c \in ConnIds :
              /\ \E i \in DOMAIN delivered[c] : \E j \in DOMAIN delivered[c] :
                    /\ j = i + 1
                    /\ delivered[c][i].type = "model_loading"
                    /\ delivered[c][j].type = "error"
              /\ \A t \in TaskIds : task[t].state = "unborn"

\* C14: when the adapter raises during streaming on a connection that is
\* registered with an open transport, an error event for the stream is
\* delivered, the connection stays registered and the task ends; when
\* _start_chat_stream resumes from such a task, the active-stream handle of
\* the connection is cleared, its registration is left as it is and the
\* endpoint goes back to receiving, so that a further chat_request starts a
\* new stream.
C14_AdapterErrorKeepsSession ==
    [][\A t \in TaskIds :
         LET c == task[t].conn IN
         /\ (/\ ~task[t].raised /\ task'[t].raised
             /\ active_connections[c] # 0
             /\ wsOpen'[active_connections[c]]) =>
               /\ delivered'[c] =
                     Append(delivered[c], [ws |-> active_connections[c],
                                           type |-> "error", stream |-> t,
                                           k |-> 0])
               /\ active_connections'[c] = active_connections[c]
               /\ connection_metadata'[c].present
               /\ task'[t].state = "finished"
         /\ (/\ task[t].raised /\ task[t].state = "finished"
             /\ ~task[t].reaped /\ task'[t].reaped) =>
               /\ active_streams'[c] = 0
               /\ active_connections'[c] = active_connections[c]
               /\ connection_metadata'[c] = connection_metadata[c]
               /\ \A w \in Sockets :
                     (ep[w].pc = "await_task" /\ ep[w].task = t) =>
                         ep'[w].pc = "receive"]_vars

\* C14 witness: a stream failed and its error was delivered; after its
\* awaiter resumed, a later chat_request on the same, still registered
\* connection started a new stream whose stream_start was delivered.
C14_Witness ==
    \E t \in TaskIds : \E u \in TaskIds :
        LET c == task[t].conn IN
        /\ task[t].raised /\ task[t].reaped /\ task[t].state = "finished"
        /\ u > t /\ task[u].conn = c
        /\ active_connections[c] # 0
        /\ \E i \in EventsOf(c, t, {"error"}) :
              \E j \in EventsOf(c, u, {"stream_start"}) : i < j

\* The events _stream_chat_response sends
StreamEventTypes ==
    {"stream_start", "stream_content", "stream_complete", "error"}

\* The events that the task of stream t sent and that were delivered on its
\* connection, in order, as <<type, k>> pairs
StreamLog(t) ==
    LET log == SelectSeq(delivered[task[t].conn],
                         LAMBDA e : e.stream = t /\ e.type \in StreamEventTypes)
    IN [i \in DOMAIN log |-> <<log[i].type, log[i].k>>]

\* What a client is to see of a stream that failed after k fragments
FailedStreamEvents(k) ==
    <<<<"stream_start", 0>>>> \o [i \in 1..k |-> <<"stream_content", i>>]
        \o <<<<"error", 0>>>>

\* a is b with some elements left out
RECURSIVE IsSubsequence(_, _)
IsSubsequence(a, b) ==
    IF a = << >> THEN TRUE
    ELSE IF b = << >> THEN FALSE
    ELSE IF Head(a) = Head(b) THEN IsSubsequence(Tail(a), Tail(b))
    ELSE IsSubsequence(a, Tail(b))

\* The connection of stream t is registered and its transport takes the
\* message written in this step
Reachable(t) ==
    /\ active_connections[task[t].conn] # 0
    /\ wsOpen'[active_connections[task[t].conn]]

\* The step delivers exactly event <<type, k>> of stream t on its connection
Delivers(t, type, k) ==
    delivered'[task[t].conn] =
        Append(delivered[task[t].conn],
               [ws |-> active_connections[task[t].conn], type |-> type,
                stream |-> t, k |-> k])

LiveStreams(c) ==
    {t \in TaskIds :
        task[t].conn = c /\ Live(task, t) /\ ~task[t].cancelReq}

\* C15: once disconnect(id) has returned and until id is connected again, id
\* is a key of none of active_connections, connection_metadata and
\* active_streams, and no stream task started for id keeps running.
C15_DisconnectReleasesSession ==
    \A c \in ConnIds :
        active_connections[c] = 0 =>
            /\ ~connection_metadata[c].present
            /\ active_streams[c] = 0
            /\ LiveStreams(c) = {}

\* Endpoint w has handled one more control message in this step
Handled(w) == ep'[w].last.n = ep[w].last.n + 1

\* Connection c is registered and its transport takes what this step writes
ConnReachable(c) ==
    active_connections[c] # 0 /\ wsOpen'[active_connections[c]]

\* The step delivers exactly one event, of the given type, on connection c
Replies(c, type) ==
    /\ delivered'[c] =
          Append(delivered[c], [ws |-> active_connections[c], type |-> type,
                                stream |-> 0, k |-> 0])
    /\ \A d \in ConnIds \ {c} : delivered'[d] = delivered[d]

\* The sessions and the stream tasks are what they were
SessionsUnchanged ==
    /\ active_connections' = active_connections
    /\ connection_metadata' = connection_metadata
    /\ active_streams' = active_streams
    /\ task' = task
    /\ wsOpen' = wsOpen

\* C21: a malformed client message (text that is not JSON, an unknown type,
\* a chat_request without 'messages', a switch_provider without provider, a
\* load_model without model) received on a connection that is registered
\* with an open transport produces exactly one error event and changes no
\* session state: active_connections, connection_metadata, active_streams
\* and the stream tasks are unchanged and the endpoint keeps receiving.
C21_MalformedMessageOnlyErrs ==
    [][\A w \in Sockets :
         (/\ Handled(w)
          /\ ep'[w].last.end = "rejected"
          /\ ConnReachable(ep[w].conn)) =>
             /\ Replies(ep[w].conn, "error")
             /\ SessionsUnchanged
             /\ ep'[w].pc = "receive"]_vars

\* C21 witness: a malformed message was answered with an error, which is
\* the last event of the connection, while a stream of that connection is
\* registered and running.
C21_Witness ==
    \E w \in Sockets :
        LET c == ep[w].conn IN
        /\ ep[w].last.end = "rejected"
        /\ ep[w].pc = "receive"
        /\ active_connections[c] = w
        /\ wsOpen[w]
        /\ delivered[c] # << >>
        /\ delivered[c][Len(delivered[c])].type = "error"
        /\ delivered[c][Len(delivered[c])].stream = 0
        /\ active_streams[c] # 0
        /\ task[active_streams[c]].state = "running"

\* C22: switch_provider sets the connection's current provider to P only if
\* P is configured and the health probe of P run for that request returned
\* true; otherwise it sends an error and leaves the current provider as it
\* is; in both cases the connection's active stream is neither cancelled nor
\* replaced (the connection's transport being open, if it is registered).
C22_SwitchOnlyToHealthyProvider ==
    [][\A w \in Sockets :
         (Handled(w) /\ ep'[w].last.msg = "switch_provider") =>
            LET c == ep[w].conn
                P == ep'[w].last.arg
                ok == P \in ConfiguredProviders /\ ep'[w].last.probe = "True"
            IN (active_connections[c] = 0 \/ ConnReachable(c)) =>
                 /\ (connection_metadata'[c].current_provider #
                        connection_metadata[c].current_provider => ok)
                 /\ (ok /\ connection_metadata[c].present =>
                        /\ connection_metadata'[c] =
                              [connection_metadata[c] EXCEPT
                                  !.current_provider = P]
                        /\ ConnReachable(c) => Replies(c, "provider_switched"))
                 /\ (~ok =>
                        /\ connection_metadata' = connection_metadata
                        /\ ConnReachable(c) => Replies(c, "error"))
                 /\ active_streams' = active_streams
                 /\ task' = task
                 /\ active_connections' = active_connections
                 /\ ep'[w].pc = "receive"]_vars

\* C22 witness: a probe of huggingface returned true and the connection was
\* switched to it while a stream of the connection is registered and
\* running.
C22_Witness ==
    \E w \in Sockets :
        LET c == ep[w].conn IN
        /\ ep[w].last.msg = "switch_provider"
        /\ ep[w].last.arg = "huggingface"
        /\ ep[w].last.probe = "True"
        /\ ep[w].last.end = "switched"
        /\ connection_metadata[c].current_provider = "huggingface"
        /\ delivered[c] # << >>
        /\ delivered[c][Len(delivered[c])].type = "provider_switched"
        /\ active_streams[c] # 0
        /\ task[active_streams[c]].state = "running"
        /\ ~task[active_streams[c]].cancelReq

\* C23: handle_message never propagates an exception raised by the router
\* or an adapter.  An unknown provider (ValueError from get_provider), a
\* model that fails to load and a failure while streaming each end with an
\* error event on a connection that is registered with an open transport,
\* and with the endpoint back at receive_text; the endpoint leaves its loop
\* only when its client has closed the websocket.
C23_HandlerFailuresBecomeErrors ==
    /\ [](\A w \in Sockets : ep[w].pc = "closed" => ~wsOpen[w])
    /\ [][\A w \in Sockets :
            LET c == ep[w].conn IN
            /\ (/\ Handled(w)
                 /\ ep'[w].last.end \in {"unknown_provider", "load_failed"}) =>
                   /\ ep'[w].pc = "receive"
                   /\ ConnReachable(c) => Replies(c, "error")
            /\ (ep[w].pc = "await_load" /\ ep'[w].pc # "await_load"
                    /\ ep'[w].pc # "await_task") =>
                   /\ ep'[w].pc = "receive"
                   /\ ConnReachable(c) => Replies(c, "error")
            /\ (/\ ep[w].pc = "await_task"
                 /\ task[ep[w].task].raised
                 /\ ep'[w].pc # "await_task") => ep'[w].pc = "receive"
            /\ \A t \in TaskIds :
                  (~task[t].raised /\ task'[t].raised /\ Reachable(t)) =>
                      Delivers(t, "error", 0)]_vars

\* C23 witness: a chat_request naming an unknown provider was answered with
\* an error, and the endpoint is receiving on its open websocket.
C23_Witness ==
    \E w \in Sockets :
        LET c == ep[w].conn IN
        /\ ep[w].last.msg = "chat_request"
        /\ ep[w].last.end = "unknown_provider"
        /\ ep[w].pc = "receive"
        /\ wsOpen[w]
        /\ active_connections[c] = w
        /\ delivered[c] # << >>
        /\ delivered[c][Len(delivered[c])].type = "error"

\* Last element of a non-empty sequence
Last(q) == q[Len(q)]

\* C35: with load_model returning no value, a chat_request or load_model
\* message for a model absent from the catalog ends with an error after
\* model_loading: for the chat_request the emitted events are model_loading
\* and then error, stream_start is never emitted and no stream task is
\* created; the load_model message is answered with model_loading, its
\* handling ends with an error on a reachable connection, and model_loaded
\* is never delivered.
C35_AbsentModelAlwaysErrs ==
    /\ [](/\ \A r \in DOMAIN reqLog :
              /\ reqLog[r].emitted \in {<<"model_loading">>,
                                        <<"model_loading", "error">>}
              /\ reqLog[r].done => reqLog[r].emitted = <<"model_loading", "error">>
              /\ \A t \in TaskIds : task[t].req # r
          /\ \A c \in ConnIds : \A i \in DOMAIN delivered[c] :
                delivered[c][i].type # "model_loaded"
          /\ \A w \in Sockets :
                (/\ ep[w].pc \in {"await_load", "await_load_model"}
                 /\ ep[w].conn = w
                 /\ active_connections[w] = w) =>
                    Last(delivered[w]).type = "model_loading")
    /\ [][\A w \in Sockets :
            (ep[w].pc \in {"await_load", "await_load_model"}
                /\ ep'[w].pc # ep[w].pc) =>
                  /\ ep'[w].pc = "receive"
                  /\ \A t \in TaskIds :
                        task[t].state = "unborn" => task'[t].state = "unborn"
                  /\ nextTask' = nextTask
                  /\ ConnReachable(ep[w].conn) => Replies(ep[w].conn, "error")]_vars

\* C35 witness: a chat_request and a load_model message for an absent model
\* have both ended with an error that followed model_loading, the one of the
\* load_model message delivered on its own connection, and no task exists.
C35_Witness ==
    /\ \E r \in DOMAIN reqLog :
          reqLog[r].done /\ reqLog[r].emitted = <<"model_loading", "error">>
    /\ ep[2].last.msg = "load_model"
    /\ ep[2].last.end = "load_failed"
    /\ ep[2].conn = 2
    /\ Len(delivered[2]) >= 3
    /\ delivered[2][Len(delivered[2]) - 1].type = "model_loading"
    /\ Last(delivered[2]).type = "error"
    /\ \A t \in TaskIds : task[t].state = "unborn"

\* C36: a chat_request that names no provider is routed to the router's
\* default provider whatever provider an earlier successful switch_provider
\* recorded for the session, and records the default as current provider;
\* a successful switch_provider changes the current_provider of its
\* connection's metadata and nothing else of the sessions.
C36_SwitchDoesNotRouteChats ==
    /\ [](\A t \in TaskIds :
             (task[t].state # "unborn" /\ task[t].asked = None) =>
                 task[t].prov = default_provider)
    /\ [][/\ \A t \in TaskIds :
              (/\ task[t].state = "unborn"
               /\ task'[t].state # "unborn"
               /\ task'[t].asked = None
               /\ connection_metadata'[task'[t].conn].present) =>
                  connection_metadata'[task'[t].conn].current_provider =
                      default_provider
          /\ \A w \in Sockets :
              (/\ Handled(w)
               /\ ep'[w].last.msg = "switch_provider"
               /\ ep'[w].last.end = "switched"
               /\ ConnReachable(ep[w].conn)) =>
                  /\ connection_metadata' =
                        [connection_metadata EXCEPT
                            ![ep[w].conn].current_provider = ep'[w].last.arg]
                  /\ active_connections' = active_connections
                  /\ active_streams' = active_streams
                  /\ task' = task
                  /\ nextTask' = nextTask]_vars

\* C36 witness: on a connection of its own, websocket 2 switched to
\* huggingface and then sent a chat_request naming no provider; its stream
\* reads from the default provider and the metadata names the default.
C36_Witness ==
    \E t \in TaskIds :
        /\ task[t].conn = 2
        /\ task[t].state = "running"
        /\ task[t].asked = None
        /\ task[t].prior = "huggingface"
        /\ task[t].prior # default_provider
        /\ task[t].prov = default_provider
        /\ connection_metadata[2].current_provider = default_provider
        /\ \E i \in DOMAIN delivered[2] :
              delivered[2][i].type = "provider_switched"

\* C37: a send that fails on a connection's transport releases the session
\* as disconnect does: the connection's entries are removed and its
\* registered stream is asked to cancel, also when that stream made the
\* send; nothing is delivered, the sender goes on without an exception, and
\* while the id is not registered a send for it changes nothing.
C37_FailedSendReleasesSession ==
    [][/\ \A c \in ConnIds :
            (active_connections[c] # 0 /\ active_connections'[c] = 0) =>
                /\ connection_metadata'[c] = NoMeta
                /\ active_streams'[c] = 0
                /\ (active_streams[c] # 0 /\ Live(task, active_streams[c])) =>
                       task'[active_streams[c]].cancelReq
       /\ \A c \in ConnIds :
            (active_connections[c] = 0 /\ active_connections'[c] = 0) =>
                delivered'[c] = delivered[c]
       /\ \A t \in TaskIds :
            task'[t].k = task[t].k + 1 =>
                LET c == task[t].conn
                    ws == active_connections[c]
                IN /\ task'[t].state = "running"
                   /\ ws = 0 =>
                         /\ delivered' = delivered
                         /\ active_connections' = active_connections
                         /\ connection_metadata' = connection_metadata
                         /\ active_streams' = active_streams
                   /\ (ws # 0 /\ ~wsOpen'[ws]) =>
                         /\ delivered' = delivered
                         /\ active_connections'[c] = 0
                         /\ active_streams[c] = t => task'[t].cancelReq]_vars

\* C37 witness: a stream wrote a chunk to a transport its client had
\* closed; the session is released, the stream, still awaited by its
\* endpoint, has been cancelled, and no other websocket was ever connected.
C37_Witness ==
    \E t \in TaskIds : \E w \in Sockets :
        /\ ep[w].pc = "await_task"
        /\ ep[w].task = t
        /\ ~wsOpen[w]
        /\ task[t].k >= 1
        /\ task[t].stopAt = 0
        /\ task[t].state = "cancelled"
        /\ active_connections[task[t].conn] = 0
        /\ ~connection_metadata[task[t].conn].present
        /\ active_streams[task[t].conn] = 0
        /\ \A v \in Sockets \ {w} : ep[v].pc = "init"
        /\ \A i \in DOMAIN delivered[task[t].conn] :
              delivered[task[t].conn][i].type # "stream_content"

\* C40: in every reachable state of AIWebSocketManager, under any
\* interleaving of connect, disconnect, message handling and stream tasks,
\* active_connections and connection_metadata have the same key set and
\* every key of active_streams is a key of active_connections.
C40_DictionariesAgree ==
    \A c \in ConnIds :
        /\ (active_connections[c] # 0) = connection_metadata[c].present
        /\ active_streams[c] # 0 => active_connections[c] # 0

\* C40 witness: one session holds a registered stream while another, whose
\* stream is still live and asked to cancel, has been released from all
\* three dictionaries.
C40_Witness ==
    \E t \in TaskIds : \E c \in ConnIds \ {task[t].conn} :
        /\ Live(task, t)
        /\ task[t].cancelReq
        /\ active_connections[task[t].conn] = 0
        /\ ~connection_metadata[task[t].conn].present
        /\ active_streams[task[t].conn] = 0
        /\ active_connections[c] # 0
        /\ connection_metadata[c].present
        /\ active_streams[c] # 0

\* C30: whenever a stream task of a connection is running (and has not been
\* asked to stop), active_streams[connection] is that task; and the handle
\* of a connection that stays registered is removed only by the awaiter of
\* the very task it names, never by the awaiter of a task it replaced.
C30_HandleNamesRunningStream ==
    /\ [](\A t \in TaskIds :
            (task[t].state = "running" /\ ~task[t].cancelReq) =>
                active_streams[task[t].conn] = t)
    /\ [][\A c \in ConnIds :
            (/\ active_streams[c] # 0
             /\ active_streams'[c] = 0
             /\ active_connections'[c] # 0) =>
                \E w \in Sockets :
                    /\ ep[w].pc = "await_task"
                    /\ ep'[w].pc = "receive"
                    /\ ep[w].task = active_streams[c]]_vars

----------------------------------------------------------------------------
(* Claims about AIRouter *)

\* C16: get_provider(name) with an explicit name (a non-empty string) that
\* is not a configured provider fails with ValueError, and leaves the
\* providers mapping and default_provider unchanged.
C16_UnknownProviderFails ==
    [][(/\ resolved'.called = "no" /\ resolved' # resolved
        /\ resolved'.name \notin {None, ""}
        /\ resolved'.name \notin Registered(providers)) =>
            /\ resolved'.error = "ValueError"
            /\ resolved'.provider = None
            /\ providers' = providers
            /\ router_default' = router_default]_vars

\* C16 witness: adapters are registered, and get_provider was called with
\* the name of an adapter that is known but not registered and raised.
C16_Witness ==
    /\ providers # << >>
    /\ resolved.called = "no"
    /\ resolved.name \in RouterNames \ Registered(providers)
    /\ resolved.error = "ValueError"

\* C17: resolution never consults health: get_provider with no name returns
\* the default adapter whenever it is registered, and a named registered
\* adapter is returned, whatever their health; a failure shows only in the
\* call made on the adapter.
C17_ResolutionIgnoresHealth ==
    (resolved.called # "none"
       /\ NameOrDefault(resolved.name, router_default)
             \in Registered(providers)) =>
        /\ resolved.error = None
        /\ resolved.provider = NameOrDefault(resolved.name, router_default)
        /\ resolved.called = "failed" => health[resolved.provider] # "healthy"

\* C17 witness: the local adapter is healthy, the cloud adapter is unhealthy
\* and is the environment's default; get_provider() without a name returned
\* the cloud adapter and the call made on it failed.
C17_Witness ==
    /\ {"ollama", "openai"} \subseteq Registered(providers)
    /\ health["ollama"] = "healthy"
    /\ health["openai"] = "unhealthy"
    /\ router_default = "openai"
    /\ resolved.name = None
    /\ resolved.provider = "openai"
    /\ resolved.called = "failed"

\* Adapters whose result health_check_all has stored
Probed == {hc.results[i][1] : i \in DOMAIN hc.results}

\* C18: health_check_all probes the adapters concurrently with a bound on
\* each probe: while the probe of one adapter does not return, the results
\* of all the other adapters are produced.
C18_SlowProbeDelaysNoOther ==
    (hc.pc = "probing" /\ health[providers[hc.idx]] = "hangs") =>
        Registered(providers) \ {providers[hc.idx]} \subseteq Probed

\* C19: if the construction of one adapter fails during setup_providers,
\* every other enabled and correctly configured adapter is registered,
\* wherever the failing adapter stands in the build order.
C19_BuildFailureKeepsOthers ==
    router_pc = "ready" =>
        \A n \in RouterNames :
            (Builds(cfg, n) /\ cfg.fails # n) => n \in Registered(providers)

\* C25: health_check of an adapter never raises and converts any probe
\* failure to false, so an unreachable backend is never reported healthy;
\* health_check_all holds an entry for every adapter it has probed.
C25_UnreachableNeverReportedHealthy ==
    \A i \in DOMAIN hc.results :
        hc.results[i][2] => health[hc.results[i][1]] = "healthy"

\* C27: get_provider() with no name always returns the adapter that the
\* environment table maps the current environment to; resolution fails only
\* for an explicit name that is not configured.
C27_NoNameResolvesToEnvironmentDefault ==
    resolved.called # "none" =>
        /\ (resolved.name = None =>
               /\ resolved.error = None
               /\ resolved.provider =
                      get_ai_provider_for_environment(cfg.environment))
        /\ (resolved.error # None =>
               /\ resolved.name # None
               /\ resolved.name \notin Registered(providers))

----------------------------------------------------------------------------
(* Claims about StreamingChatSession and the health monitor *)

\* C28: after every send_message whose stream reached a terminal event, the
\* transcript has grown by exactly the sent message followed by one
\* assistant message holding the full response, so that a non-assistant
\* message is never followed by another non-assistant message.
C28_TranscriptAlternates ==
    (session.pc = "idle" /\ session.sent > 0) =>
        LET h == conversation_history IN
        /\ Len(h) = session.base + 2
        /\ h[Len(h)] = ChatMsg("assistant", session.full_response)
        /\ \A i \in 1..(Len(h) - 1) :
              h[i].role # "assistant" => h[i + 1].role = "assistant"

\* Iterations of the monitor that have published to a listener
PublishedIters == {u.iter : u \in published}

----------------------------------------------------------------------------
(* Claims about OllamaStreamingManager *)

Terminals == {"stream_complete", "stream_error"}

\* Number of token events among the first n events of a stream
RECURSIVE TokensIn(_, _)
TokensIn(events, n) ==
    IF n = 0 THEN 0
    ELSE TokensIn(events, n - 1) + (IF events[n].type = "token" THEN 1 ELSE 0)

\* C33: every stream produced by stream_chat_response yields exactly one
\* stream_start first, then token events numbered 1, 2, ..., n in order, then
\* exactly one terminal event (stream_complete with total_tokens = n, or
\* stream_error) once it has run to its end; its active_streams entry exists
\* from the start until the stream terminates and is gone afterwards unless
\* a later stream of the same id holds one.
C33_StreamEventsWellFormed ==
    \A g \in Gens :
        LET e == gen[g].events
            id == gen[g].stream_id
        IN gen[g].pc # "new" =>
            /\ e[1].type = "stream_start"
            /\ \A i \in 2..Len(e) :
                  /\ e[i].type # "stream_start"
                  /\ e[i].type = "token" => e[i].n = i - 1
                  /\ e[i].type \in Terminals => i = Len(e)
                  /\ e[i].type = "stream_complete" => e[i].n = i - 2
            /\ (gen[g].pc = "yielded" => e[Len(e)].type \notin Terminals)
            /\ (gen[g].pc = "yielded_terminal" \/
                    (gen[g].pc = "closed" /\ ~gen[g].abandoned) =>
                        e[Len(e)].type \in Terminals)
            /\ (gen[g].pc \in {"yielded", "yielded_terminal"} =>
                    manager_streams[id].present)
            /\ (gen[g].pc = "closed" /\ manager_streams[id].present =>
                    \E h \in Gens \ {g} :
                        /\ gen[h].stream_id = id
                        /\ gen[h].pc \in {"yielded", "yielded_terminal"})

\* C34: after stop_stream(id) has returned True for an active stream, that
\* stream yields no further token event.
C34_NoTokenAfterStop ==
    \A g \in Gens :
        gen[g].stopped =>
            TokensIn(gen[g].events, Len(gen[g].events)) = gen[g].stopAt
====
